---- MODULE Spec2Model ----
(***************************************************************************)
(* Verification model of the Experiment Analytics Engine                   *)
(* (repository DavidGuzzi/cb_20250820, backend/app).                       *)
(*                                                                         *)
(*   Spec       the conversational pipeline: ABTestingChatbot.get_response *)
(*              and ChatbotService._parse_response, one session            *)
(*   SpecCache  QueryCache driven directly (get/set/clear/cleanup_expired) *)
(*   SpecAlign  UnifiedDatabaseService.get_evolution_timeline_data over a  *)
(*              small relational store                                     *)
(*                                                                         *)
(* Texts (LLM outputs, answers, queries) are sequences of tokens; the      *)
(* regular expressions and string methods of the code are modelled on      *)
(* those tokens.                                                           *)
(***************************************************************************)
EXTENDS Integers, Sequences, FiniteSets, TLC

VARIABLES
    \* ---- ConversationMemory / ABTestingChatbot.get_response ----
    messages,           \* memory.messages: sequence of [role, content]
    pc,                 \* position of the turn in get_response / process_message
    user_message,       \* argument of the running get_response
    assistant_message,  \* local assistant_message (the first model's draft)
    sql_query,          \* local sql_query of _execute_sql_from_response
    data,               \* rows returned by execute_query for this turn
    attempts,           \* loop counter of the retry loop of each LLM call site
    ret,                \* outcome of the last get_response
    parsed,             \* result of the last ChatbotService._parse_response
    turn,               \* number of get_response calls started
    \* ---- history variables of the pipeline ----
    calls,              \* completed calls: sequence of [utterance, answer]
    succeeded,          \* call site -> an attempt of this turn succeeded
    reported,           \* call site -> the retry loop of this turn ended in failure
    usedText,           \* call site -> text of its successful attempt
    execCalls,          \* queries handed to execute_query in this turn
    execOutcome,        \* outcome of execute_query in this turn
    execLog,            \* all execute_query calls: [query, ok, at]
    \* ---- QueryCache ----
    cache,              \* QueryCache.cache: key -> entry
    now,                \* datetime.now()
    total_queries,
    cache_hits,
    cache_misses,
    lastGet,            \* outcome of the last QueryCache.get
    written,            \* history: key -> last set not followed by clear
    setCount,           \* history: number of QueryCache.set calls
    tickCount,          \* history: number of clock advances
    \* ---- relational store and get_evolution_timeline_data ----
    stores,             \* store_master joined with typology/lever masters
    periods,            \* period_master
    meas,               \* ab_test_result joined with its masters
    alignArgs,          \* arguments of the last get_evolution_timeline_data
    alignResult,        \* its result
    dbQueries,          \* statements it issued to the store
    controlUsed,        \* history: ids of the stores read by its control_query
    \* ---- simulation calculator ----
    olsTables,          \* ols_params_* tables: typology -> (feature -> parametro)
    capexFee,           \* capex_fee joined with typology_master and lever_master
    simArgs,            \* arguments of the running simulation request
    simResult,          \* its result
    \* ---- a ConversationMemory of its own ----
    memory,             \* the object: [messages, max_messages]
    memLog,             \* history: messages added since construction or clear
    memTurns,           \* history: number of add_message calls made
    \* ---- ChatbotService serving concurrent requests ----
    chatbots,           \* ChatbotService.chatbots: session id -> chatbot instance
    botMessages,        \* chatbot instance -> its memory.messages
    svcPc,              \* request thread -> its position in process_message
    svcBot,             \* request thread -> its local variable chatbot (0: unset)
    \* ---- QuestionGeneratorService ----
    qOut,               \* outcome of the last generate_follow_up_questions
    qLlmCalls,          \* history: calls of _generate_with_openai
    \* ---- _generate_no_data_response ----
    noDataPrompt,       \* history: what the last no-data prompt listed
    \* ---- ChatbotService.get_session_history ----
    sessionHistory,     \* result of the get_session_history being answered
    \* ---- QueryCache called from concurrent request threads ----
    cacheThreads        \* thread -> its position in a QueryCache method and its locals

pipeVars  == <<messages, pc, user_message, assistant_message, sql_query, data,
               attempts, ret, parsed, turn, calls, succeeded, reported,
               usedText, execCalls, execOutcome, execLog>>
cacheVars == <<cache, now, total_queries, cache_hits, cache_misses, lastGet, written,
               setCount, tickCount>>
alignVars == <<stores, periods, meas, alignArgs, alignResult, dbQueries,
               controlUsed>>
simVars   == <<olsTables, capexFee, simArgs, simResult>>
\* the subsystems that the pipeline, the cache and the aligner never touch
memVars   == <<memory, memLog, memTurns>>
svcVars   == <<chatbots, botMessages, svcPc, svcBot>>
qVars     == <<qOut, qLlmCalls>>
\* the subsystems added after the simulation calculator, memory and service
extraVars == <<qVars, noDataPrompt, sessionHistory, cacheThreads>>
\* the added subsystems other than the question generator
qOthers   == <<noDataPrompt, sessionHistory, cacheThreads>>
\* the added subsystems other than the no-data prompt
promptOthers == <<qVars, sessionHistory, cacheThreads>>
\* the added subsystems other than the session history
historyOthers == <<qVars, noDataPrompt, cacheThreads>>
\* the added subsystems other than the cache threads
threadOthers == <<qVars, noDataPrompt, sessionHistory>>
restVars  == <<simVars, memVars, svcVars, extraVars>>
vars      == <<pipeVars, cacheVars, alignVars, restVars>>

NULL == "NULL"

\* dict.get(key, default)
GetOr(dict, key, default) == IF key \in DOMAIN dict THEN dict[key] ELSE default

\* --------------------------------------------------------------------------
\* Bounds of the model
\* --------------------------------------------------------------------------
MaxTurns == 2        \* get_response calls per behaviour
MaxGets == 2         \* QueryCache.get calls per behaviour of SpecCache
MaxSets == 2         \* QueryCache.set calls per behaviour of SpecCache
MaxTicks == 2        \* clock advances per behaviour of SpecCache

\* --------------------------------------------------------------------------
\* Texts
\* --------------------------------------------------------------------------
FenceLower == "[fence]sql"   \* three backticks followed by sql
FenceUpper == "[fence]SQL"   \* three backticks followed by SQL
FenceClose == "[fence]"      \* three backticks
Space == " "
Placeholder == "X"

\* tokens that begin with three backticks
IsFence(t) == t \in {FenceLower, FenceUpper, FenceClose}
\* tokens matched by the pattern [fence]sql under re.IGNORECASE
IsOpen(t) == t \in {FenceLower, FenceUpper}
\* what is left of a token whose leading [fence] closed a block
Leftover(t) == IF t = FenceLower THEN <<"sql">> ELSE IF t = FenceUpper THEN <<"SQL">> ELSE <<>>

LowerTok(t) ==
    CASE t = "Q1" -> "q1"
      [] t = "Q2" -> "q2"
      [] t = FenceUpper -> FenceLower
      [] t = "SQL" -> "sql"
      [] t = Placeholder -> "x"
      [] OTHER -> t

\* str.lower()
Lower(s) == [i \in 1..Len(s) |-> LowerTok(s[i])]

RECURSIVE LStrip(_)
LStrip(s) == IF s # <<>> /\ Head(s) = Space THEN LStrip(Tail(s)) ELSE s

RECURSIVE RStrip(_)
RStrip(s) == IF s # <<>> /\ s[Len(s)] = Space THEN RStrip(SubSeq(s, 1, Len(s) - 1)) ELSE s

\* str.strip()
Strip(s) == RStrip(LStrip(s))

\* str.replace(old, new)
Replace(s, old, new) == [i \in 1..Len(s) |-> IF s[i] = old THEN new ELSE s[i]]

\* a non-empty str is truthy
Truthy(s) == s # <<>>

MinOf(S) == CHOOSE x \in S : \A y \in S : x <= y

\* position of the first [fence] after position i, 0 when there is none
NextFence(t, i) ==
    LET js == {j \in (i + 1)..Len(t) : IsFence(t[j])}
    IN IF js = {} THEN 0 ELSE MinOf(js)

\* re.findall(sql_pattern, text, re.DOTALL | re.IGNORECASE), sql_pattern = [fence]sql\s*(.*?)\s*[fence]
RECURSIVE FindAllFrom(_, _)
FindAllFrom(t, i) ==
    IF i > Len(t) THEN <<>>
    ELSE IF ~IsOpen(t[i]) THEN FindAllFrom(t, i + 1)
    ELSE IF NextFence(t, i) = 0 THEN <<>>
    ELSE <<Strip(SubSeq(t, i + 1, NextFence(t, i) - 1))>>
            \o FindAllFrom(t, NextFence(t, i) + 1)

FindAll(t) == FindAllFrom(t, 1)

\* re.sub([fence]sql.*?[fence], '', text, flags=re.DOTALL | re.IGNORECASE)
RECURSIVE RemoveBlocksFrom(_, _)
RemoveBlocksFrom(t, i) ==
    IF i > Len(t) THEN <<>>
    ELSE IF ~IsOpen(t[i]) THEN <<t[i]>> \o RemoveBlocksFrom(t, i + 1)
    ELSE IF NextFence(t, i) = 0 THEN SubSeq(t, i, Len(t))
    ELSE Leftover(t[NextFence(t, i)]) \o RemoveBlocksFrom(t, NextFence(t, i) + 1)

RemoveBlocks(t) == RemoveBlocksFrom(t, 1)

\* the substring test for the lower-case opening fence in assistant_message
HasSqlFence(t) == \E i \in 1..Len(t) : t[i] = FenceLower

\* --------------------------------------------------------------------------
\* ConversationMemory
\* --------------------------------------------------------------------------
max_messages == 20

\* ConversationMemory.add_message
AddMessage(msgs, role, content) ==
    LET m == Append(msgs, [role |-> role, content |-> content])
    IN IF Len(m) > max_messages
       THEN SubSeq(m, Len(m) - max_messages + 1, Len(m))
       ELSE m

\* --------------------------------------------------------------------------
\* QueryCache
\* --------------------------------------------------------------------------
default_ttl == 300

EmptyCache == [k \in {} |-> NULL]

\* QueryCache._get_cache_key: md5 of sql_query.strip().lower(); the digest is
\* taken as injective, so the normalised text stands for the key
CacheKey(q) == Lower(Strip(q))

\* an expiry test that already fails at the instant of expiry
IsExpiredEarly(t, item) == t >= item.expires_at

\* datetime.now() > cached_item['expires_at']
IsExpired(t, item) == t > item.expires_at

\* ttl = ttl or self.default_ttl (None and 0 are both falsy: 0 stands for both)
EffectiveTtl(ttl) == IF ttl = 0 THEN default_ttl ELSE ttl

Miss == [kind |-> "miss"]

\* the dict QueryCache.get builds on a hit; it reads four keys of the stored result
HitPayload(item) ==
    IF {"success", "data", "columns", "row_count"} \subseteq DOMAIN item.result
    THEN [kind |-> "hit",
          success |-> item.result.success,
          data |-> item.result.data,
          columns |-> item.result.columns,
          row_count |-> item.result.row_count,
          cached |-> TRUE,
          cache_timestamp |-> item.created_at]
    ELSE [kind |-> "raised", error |-> "KeyError"]

CacheWithout(c, k) == [x \in DOMAIN c \ {k} |-> c[x]]

\* a get that counts an expired entry as a hit
CacheGetCountsExpiredAsHit(c, q, t) ==
    LET k == CacheKey(q)
    IN IF k \notin DOMAIN c
       THEN [cache |-> c, hit |-> FALSE, out |-> Miss]
       ELSE IF IsExpired(t, c[k])
       THEN [cache |-> CacheWithout(c, k), hit |-> TRUE, out |-> Miss]
       ELSE [cache |-> c, hit |-> TRUE, out |-> HitPayload(c[k])]

\* QueryCache.get: the cache it leaves, whether it counted a hit, what it returns
CacheGet(c, q, t) ==
    LET k == CacheKey(q)
    IN IF k \notin DOMAIN c
       THEN [cache |-> c, hit |-> FALSE, out |-> Miss]
       ELSE IF IsExpired(t, c[k])
       THEN [cache |-> CacheWithout(c, k), hit |-> FALSE, out |-> Miss]
       ELSE [cache |-> c, hit |-> TRUE, out |-> HitPayload(c[k])]

\* QueryCache.set: the entry stored under the key of sql_query
CacheEntry(q, result, ttl, t) ==
    [query |-> q, result |-> result, created_at |-> t,
     expires_at |-> t + EffectiveTtl(ttl)]

CacheSet(c, q, result, ttl, t) ==
    [x \in DOMAIN c \cup {CacheKey(q)} |->
        IF x = CacheKey(q) THEN CacheEntry(q, result, ttl, t) ELSE c[x]]

\* QueryCache.cleanup_expired: the keys it deletes
ExpiredKeys(c, t) == {k \in DOMAIN c : t > c[k].expires_at}

\* the state change of one QueryCache.get(q)
ApplyGet(q) ==
    LET g == CacheGet(cache, q, now)
    IN /\ cache' = g.cache
       /\ total_queries' = total_queries + 1
       /\ cache_hits' = cache_hits + (IF g.hit THEN 1 ELSE 0)
       /\ cache_misses' = cache_misses + (IF g.hit THEN 0 ELSE 1)
       /\ lastGet' = [query |-> q, out |-> g.out]
       /\ UNCHANGED <<now, written, setCount, tickCount>>

\* --------------------------------------------------------------------------
\* Inputs of the conversational pipeline
\* --------------------------------------------------------------------------
Utterances == {<<"u1">>, <<"u2">>}

DraftFigure == "42"      \* a number the first model made up

\* texts the first LLM call may return
Drafts ==
    { <<"txt">>,                                                  \* no query block
      <<FenceLower, "q1", FenceClose, "txt", Placeholder>>,        \* block and placeholder
      <<FenceLower, "q1", FenceClose, DraftFigure>>,               \* block and made-up figure
      <<FenceUpper, "q1", FenceClose, "txt">>,                     \* upper-case fence
      <<FenceLower, Space, "Q1", Space, FenceClose, "txt",
        FenceLower, "q2", FenceClose>>,                            \* two blocks
      <<"txt", FenceLower, "q1">> }                                \* fence never closed

\* texts the reformulation call may return
ReformTexts == {<<"reformulated", "7">>, <<>>}

\* texts the no-data call may return
NoDataTexts == {<<"no-data narrative">>, <<>>}

LlmError == "llm unavailable"     \* str(e) of a failed responses.create
DbError == "db error"             \* str(e) of a failed read_sql_query

\* rows as df.to_dict('records') gives them: one dict per row, keyed by column name
DataShapes ==
    { <<>>,
      <<[total |-> "7"]>>,
      <<[city |-> "A", total |-> "7"]>>,
      <<[total |-> "7"], [total |-> "8"]>> }

\* results of UnifiedDatabaseService.execute_query
ExecOutcomes ==
    {[success |-> TRUE, data |-> d, error |-> NULL] : d \in DataShapes}
        \cup {[success |-> FALSE, data |-> <<>>, error |-> DbError]}

Sites == {"initial", "reform", "nodata"}

\* a retry loop that runs once more
RetryLimitThree == 2 + 1

\* for _ in range(2)
RetryLimit == 2

\* the key of data[0][0]: the int 0, which is no column name (column names are str)
IntKey0 == "int:0"

ErrorPrefix == "Error al generar respuesta: "
Apology == <<"Lo siento, no tengo datos disponibles para tu consulta.">>

\* a get_response without its except clause: the exception leaves the call
CatchReraise(e) == [kind |-> "raised", text |-> <<e>>]

\* the except clause of get_response: the exception becomes the returned string
Catch(e) == [kind |-> "value", text |-> <<ErrorPrefix, e>>]

\* the fallback of _reformulate_response_with_data for other result shapes
RowCountFallback(original_response, d) ==
    original_response \o <<"Encontre", ToString(Len(d)), "registro(s) en los datos.">>

\* the except clause of _reformulate_response_with_data
ReformFallback(original_response, d) ==
    IF Len(d) = 1 /\ Cardinality(DOMAIN d[1]) = 1
    THEN IF IntKey0 \in DOMAIN d[1]
         THEN [kind |-> "value", text |-> Replace(original_response, Placeholder, d[1][IntKey0])]
         ELSE [kind |-> "raised", error |-> "0"]     \* KeyError(0)
    ELSE [kind |-> "value", text |-> RowCountFallback(original_response, d)]

\* clean_response of _execute_sql_from_response
CleanResponse(response_text) == Strip(RemoveBlocks(response_text))

\* get_response, lines 114-138: the answer kept when _execute_sql_from_response
\* returned sql_results (None and "" are both falsy)
FinalAnswer(draft, sql_results) == IF Truthy(sql_results) THEN sql_results ELSE draft

NoOutcome == [success |-> FALSE, data |-> <<>>, error |-> "not executed"]

\* get_response returns answer after memory.add_message("assistant", answer)
ReturnAnswer(answer) ==
    /\ messages' = AddMessage(messages, "assistant", answer)
    /\ ret' = [kind |-> "value", text |-> answer]
    /\ calls' = Append(calls, [utterance |-> user_message, answer |-> answer])
    /\ pc' = "returned"

\* an exception reaches the except clause of get_response
ReturnCaught(e) ==
    /\ ret' = Catch(e)
    /\ calls' = Append(calls, [utterance |-> user_message, answer |-> Catch(e).text])
    /\ pc' = "returned"
    /\ UNCHANGED messages

\* --------------------------------------------------------------------------
\* ABTestingChatbot.get_response, step by step
\* --------------------------------------------------------------------------
\* lines 17-80: the user turn is stored and the prompt built
AskStart(u) ==
    /\ pc = "idle"
    /\ turn < MaxTurns
    /\ turn' = turn + 1
    /\ user_message' = u
    /\ messages' = AddMessage(messages, "user", u)
    /\ assistant_message' = <<>>
    /\ sql_query' = <<>>
    /\ data' = <<>>
    /\ attempts' = [s \in Sites |-> 0]
    /\ succeeded' = [s \in Sites |-> FALSE]
    /\ reported' = [s \in Sites |-> FALSE]
    /\ usedText' = [s \in Sites |-> <<>>]
    /\ execCalls' = <<>>
    /\ execOutcome' = NoOutcome
    /\ ret' = [kind |-> "running"]
    /\ pc' = "llm_initial"
    /\ UNCHANGED <<parsed, calls, execLog, cacheVars, alignVars, restVars>>

\* lines 81-95: one failed attempt of the initial call
InitialAttemptFails ==
    /\ pc = "llm_initial"
    /\ attempts["initial"] < RetryLimit
    /\ attempts' = [attempts EXCEPT !["initial"] = @ + 1]
    /\ IF attempts["initial"] + 1 >= RetryLimit
       THEN /\ reported' = [reported EXCEPT !["initial"] = TRUE]
            /\ ReturnCaught(LlmError)
       ELSE UNCHANGED <<reported, ret, calls, pc, messages>>
    /\ UNCHANGED <<user_message, assistant_message, sql_query, data, parsed, turn,
                   succeeded, usedText, execCalls, execOutcome, execLog,
                   cacheVars, alignVars, restVars>>

\* lines 81-153: a successful attempt of the initial call, then the detection
\* of the query block and its extraction
InitialAttemptSucceeds(text) ==
    /\ pc = "llm_initial"
    /\ attempts["initial"] < RetryLimit
    /\ attempts' = [attempts EXCEPT !["initial"] = @ + 1]
    /\ succeeded' = [succeeded EXCEPT !["initial"] = TRUE]
    /\ usedText' = [usedText EXCEPT !["initial"] = text]
    /\ assistant_message' = text
    /\ IF HasSqlFence(text) /\ FindAll(text) # <<>>
       THEN /\ sql_query' = Strip(FindAll(text)[1])
            /\ pc' = "exec"
            /\ UNCHANGED <<messages, ret, calls>>
       ELSE /\ ReturnAnswer(FinalAnswer(text, <<>>))
            /\ UNCHANGED sql_query
    /\ UNCHANGED <<user_message, data, parsed, turn, reported, execCalls,
                   execOutcome, execLog, cacheVars, alignVars, restVars>>

\* lines 161-194: execute_query(sql_query) and the choice of the next LLM call
\* --------------------------------------------------------------------------
\* What the executor does to the store, and the summary of available data
\* --------------------------------------------------------------------------
\* a statement that removes the measurements and returns the removed rows
WriteStatement == "delete from ab_test_result returning *"

\* execute_query passes the statement as it is to read_sql_query on the
\* engine.  A statement that returned its rows was executed and the
\* connection block committed it; one that failed was either rolled back or
\* already committed by the driver, depending on the library version.
MeasurementsAfter(statement, result, M) ==
    IF WriteStatement \notin {statement[i] : i \in 1..Len(statement)}
    THEN {M}
    ELSE IF result.success THEN {{}} ELSE {M, {}}

\* get_data_summary: the row count of each table, or the error
get_data_summary(S, M, dbUp) ==
    IF dbUp
    THEN [success |-> TRUE,
          summary |-> [city_master_count |-> Cardinality({s.city_id : s \in S} \ {NULL}),
                       typology_master_count |-> Cardinality({s.typology_name : s \in S}),
                       lever_master_count |-> Cardinality({s.lever_name : s \in S}),
                       category_master_count |-> Cardinality({m.category_name : m \in M}),
                       store_master_count |-> Cardinality(S),
                       ab_test_result_count |-> Cardinality(M),
                       ab_test_summary_count |-> Cardinality({m.store_id : m \in M})]]
    ELSE [success |-> FALSE, error |-> DbError]

\* the first n elements of a list
Head_n(list, n) == SubSeq(list, 1, IF Len(list) < n THEN Len(list) ELSE n)

\* _generate_no_data_response, lines 293-311: what the prompt lists
NoDataPrompt(message, available_data) ==
    LET summary == GetOr(available_data, "summary", <<>>)
        available_periods == GetOr(summary, "periods", <<>>)
        summary_stores == GetOr(summary, "stores", <<>>)
        available_stores ==
            Head_n([i \in 1..Len(summary_stores) |-> summary_stores[i].store_name], 10)
        available_cities == GetOr(summary, "cities", <<>>)
    IN  [kind |-> "prompt", user_message |-> message,
         periods |-> Head_n(available_periods, 5),
         stores |-> available_stores,
         cities |-> available_cities]

ExecuteQuery(result) ==
    /\ pc = "exec"
    /\ meas' \in MeasurementsAfter(sql_query, result, meas)
    /\ IF result.success /\ result.data # <<>>
       THEN UNCHANGED noDataPrompt
       ELSE \E dbUp \in BOOLEAN :
                noDataPrompt' = NoDataPrompt(user_message,
                                             get_data_summary(stores, meas', dbUp))
    /\ execCalls' = Append(execCalls, sql_query)
    /\ execLog' = Append(execLog, [query |-> sql_query, ok |-> result.success,
                                   at |-> now, turn |-> turn])
    /\ execOutcome' = result
    /\ data' = result.data
    /\ pc' = IF result.success /\ result.data # <<>> THEN "llm_reform" ELSE "llm_nodata"
    /\ UNCHANGED <<messages, user_message, assistant_message, sql_query, attempts,
                   ret, parsed, turn, calls, succeeded, reported, usedText,
                   cacheVars, stores, periods, alignArgs, alignResult, dbQueries,
                   controlUsed, simVars, memVars, svcVars, promptOthers>>

\* _reformulate_response_with_data, lines 227-250: a successful attempt
ReformAttemptSucceeds(text) ==
    /\ pc = "llm_reform"
    /\ attempts["reform"] < RetryLimit
    /\ attempts' = [attempts EXCEPT !["reform"] = @ + 1]
    /\ succeeded' = [succeeded EXCEPT !["reform"] = TRUE]
    /\ usedText' = [usedText EXCEPT !["reform"] = text]
    /\ ReturnAnswer(FinalAnswer(assistant_message, text))
    /\ UNCHANGED <<user_message, assistant_message, sql_query, data, parsed, turn,
                   reported, execCalls, execOutcome, execLog, cacheVars, alignVars, restVars>>

\* _reformulate_response_with_data, lines 227-264: a failed attempt; after the
\* last one the deterministic fallback
ReformAttemptFails ==
    /\ pc = "llm_reform"
    /\ attempts["reform"] < RetryLimit
    /\ attempts' = [attempts EXCEPT !["reform"] = @ + 1]
    /\ IF attempts["reform"] + 1 >= RetryLimit
       THEN /\ reported' = [reported EXCEPT !["reform"] = TRUE]
            /\ LET fb == ReformFallback(CleanResponse(assistant_message), data)
               IN IF fb.kind = "value"
                  THEN ReturnAnswer(FinalAnswer(assistant_message, fb.text))
                  ELSE ReturnCaught(fb.error)
       ELSE UNCHANGED <<reported, ret, calls, pc, messages>>
    /\ UNCHANGED <<user_message, assistant_message, sql_query, data, parsed, turn,
                   succeeded, usedText, execCalls, execOutcome, execLog,
                   cacheVars, alignVars, restVars>>

\* _generate_no_data_response, lines 326-351: a successful attempt
NoDataAttemptSucceeds(text) ==
    /\ pc = "llm_nodata"
    /\ attempts["nodata"] < RetryLimit
    /\ attempts' = [attempts EXCEPT !["nodata"] = @ + 1]
    /\ succeeded' = [succeeded EXCEPT !["nodata"] = TRUE]
    /\ usedText' = [usedText EXCEPT !["nodata"] = text]
    /\ ReturnAnswer(FinalAnswer(assistant_message, text))
    /\ UNCHANGED <<user_message, assistant_message, sql_query, data, parsed, turn,
                   reported, execCalls, execOutcome, execLog, cacheVars, alignVars, restVars>>

\* _generate_no_data_response, lines 326-361: a failed attempt; after the last
\* one the fixed apology
NoDataAttemptFails ==
    /\ pc = "llm_nodata"
    /\ attempts["nodata"] < RetryLimit
    /\ attempts' = [attempts EXCEPT !["nodata"] = @ + 1]
    /\ IF attempts["nodata"] + 1 >= RetryLimit
       THEN /\ reported' = [reported EXCEPT !["nodata"] = TRUE]
            /\ ReturnAnswer(FinalAnswer(assistant_message, Apology))
       ELSE UNCHANGED <<reported, ret, calls, pc, messages>>
    /\ UNCHANGED <<user_message, assistant_message, sql_query, data, parsed, turn,
                   succeeded, usedText, execCalls, execOutcome, execLog,
                   cacheVars, alignVars, restVars>>

\* ChatbotService._parse_response on the text get_response returned
ParseResponse ==
    /\ pc = "returned"
    /\ pc' = "idle"
    /\ LET sql_matches == FindAll(ret.text)
       IN IF sql_matches # <<>>
          THEN /\ ApplyGet(Strip(sql_matches[1]))
               /\ parsed' = [sql_used |-> Strip(sql_matches[1]),
                             sql_executed |-> TRUE,
                             cached |-> CacheGet(cache, Strip(sql_matches[1]), now).hit]
          ELSE /\ parsed' = [sql_used |-> <<>>, sql_executed |-> FALSE, cached |-> FALSE]
               /\ UNCHANGED cacheVars
    \* the locals of the finished call are gone
    /\ user_message' = <<>>
    /\ assistant_message' = <<>>
    /\ sql_query' = <<>>
    /\ data' = <<>>
    /\ attempts' = [s \in Sites |-> 0]
    /\ succeeded' = [s \in Sites |-> FALSE]
    /\ reported' = [s \in Sites |-> FALSE]
    /\ usedText' = [s \in Sites |-> <<>>]
    /\ execCalls' = <<>>
    /\ execOutcome' = NoOutcome
    /\ UNCHANGED <<messages, ret, turn, calls, execLog, alignVars, restVars>>

\* --------------------------------------------------------------------------
\* QueryCache operations driven directly
\* --------------------------------------------------------------------------
\* query strings: two spellings of one normalised text, and another text
CacheQueries == {<<"q1">>, <<Space, "Q1", Space>>, <<"q2">>}

\* values stored by callers: execute_query results and the follow-up question
\* payload of QuestionGeneratorService.generate_follow_up_questions
ResultOneRow ==
    [success |-> TRUE, data |-> <<[total |-> "7"]>>, columns |-> <<"total">>, row_count |-> 1]
ResultNoRows ==
    [success |-> TRUE, data |-> <<>>, columns |-> <<"total">>, row_count |-> 0]
QuestionPayload == [questions |-> <<"follow-up">>]

\* arguments of set: <<sql_query, result, ttl>>; ttl 0 stands for ttl not given
SetInputs ==
    { <<<<"q1">>, ResultOneRow, 0>>,
      <<<<"q1">>, ResultNoRows, 1>>,
      <<<<Space, "Q1", Space>>, ResultNoRows, 0>>,
      <<<<Space, "Q1", Space>>, ResultOneRow, 1>>,
      <<<<"q2">>, ResultOneRow, 1>>,
      <<<<"q2">>, QuestionPayload, 0>> }

TickSteps == {1, default_ttl}

\* QueryCache.get(sql_query)
Get(q) ==
    /\ total_queries < MaxGets
    /\ ApplyGet(q)
    /\ UNCHANGED <<pipeVars, alignVars, restVars>>

\* QueryCache.set(sql_query, result, ttl)
Set(q, result, ttl) ==
    /\ setCount < MaxSets
    /\ setCount' = setCount + 1
    /\ cache' = CacheSet(cache, q, result, ttl, now)
    /\ written' = [x \in DOMAIN written \cup {Lower(Strip(q))} |->
                     IF x = Lower(Strip(q))
                     THEN [result |-> result,
                           expires_at |-> now + (IF ttl = 0 THEN 300 ELSE ttl)]
                     ELSE written[x]]
    /\ UNCHANGED <<now, total_queries, cache_hits, cache_misses, lastGet, tickCount,
                   pipeVars, alignVars, restVars>>

\* QueryCache.clear()
Clear ==
    /\ cache' = EmptyCache
    /\ written' = EmptyCache
    /\ UNCHANGED <<now, total_queries, cache_hits, cache_misses, lastGet, setCount,
                   tickCount, pipeVars, alignVars, restVars>>

\* QueryCache.cleanup_expired()
CleanupExpired ==
    /\ cache' = [k \in DOMAIN cache \ ExpiredKeys(cache, now) |-> cache[k]]
    /\ UNCHANGED <<now, total_queries, cache_hits, cache_misses, lastGet, written,
                   setCount, tickCount, pipeVars, alignVars, restVars>>

\* the wall clock advances
Tick(d) ==
    /\ tickCount < MaxTicks
    /\ tickCount' = tickCount + 1
    /\ now' = now + d
    /\ UNCHANGED <<cache, total_queries, cache_hits, cache_misses, lastGet, written,
                   setCount, pipeVars, alignVars, restVars>>

\* --------------------------------------------------------------------------
\* Relational store read by get_evolution_timeline_data
\* --------------------------------------------------------------------------
\* Dates are day numbers; NoDate is SQL NULL / Python None in a date column.
NoDate == 0

Droguerias == "Droguerias"      \* the typology with the city-matched control
Tiendas == "Tiendas"            \* any other typology
SellIn == "Sell In"
SellOut == "Sell Out"
ControlLever == "Control"
Lever1 == "L1"
Unit1 == "u1"
Unit2 == "u2"
Category1 == "c1"

\* a row of store_master joined with typology_master and lever_master
Store(id, typology, lever, active, city, start_in, end_in, start_out, end_out) ==
    [id |-> id, typology_name |-> typology, lever_name |-> lever,
     is_active |-> active, city_id |-> city,
     start_date_sellin |-> start_in, end_date_sellin |-> end_in,
     start_date_sellout |-> start_out, end_date_sellout |-> end_out]

\* a row of period_master
Period(id, label, start, end) ==
    [period_id |-> id, period_label |-> label, start_date |-> start, end_date |-> end]

OtherTypology(t) == IF t = Droguerias THEN Tiendas ELSE Droguerias

\* stores carrying the lever: one store, two stores with different roll-out
\* and end dates, a store without end dates next to an inactive one, a store
\* without city next to a store of another typology, three stores of which
\* two share the start date, and no store at all
LeverFamilies(t) ==
    { {Store(1, t, Lever1, TRUE, "c1", 3, 6, 3, 6)},
      {Store(1, t, Lever1, TRUE, "c1", 3, 4, 3, 4),
       Store(2, t, Lever1, TRUE, "c2", 1, 6, 1, 8)},
      {Store(1, t, Lever1, TRUE, "c1", 3, NoDate, 3, NoDate),
       Store(2, t, Lever1, FALSE, "c2", 1, 2, 1, 2)},
      {Store(1, t, Lever1, TRUE, NULL, 1, 4, NoDate, 4),
       Store(2, OtherTypology(t), Lever1, TRUE, "c2", 1, 8, 1, 8)},
      {Store(1, t, Lever1, TRUE, "c1", 5, 6, 2, 6),
       Store(2, t, Lever1, TRUE, "c1", 5, 8, 2, 7),
       Store(3, t, Lever1, TRUE, "c2", 1, 4, 6, 7)},
      {} }

\* stores of the control group
ControlFamilies(t) ==
    { {Store(5, t, ControlLever, TRUE, "c1", 1, 8, 1, 8)},
      {Store(5, t, ControlLever, TRUE, "c1", 1, 8, 1, 8),
       Store(6, t, ControlLever, TRUE, "c2", 1, 8, 1, 8)},
      {Store(5, t, ControlLever, TRUE, "c2", 1, 8, 1, 8),
       Store(6, t, ControlLever, FALSE, "c1", 1, 8, 1, 8)},
      {} }

\* period_master: weekly periods, and weekly periods mixed with monthly ones
PeriodTables ==
    { {Period(1, "W1", 1, 2), Period(2, "W2", 3, 4),
       Period(3, "W3", 5, 6), Period(4, "W4", 7, 8)},
      {Period(1, "W1", 1, 2), Period(2, "M1", 1, 4),
       Period(3, "W3", 5, 6), Period(4, "M2", 5, 8)} }

\* measurement series of a store: period_id -> value
LeverSeries ==
    { (1 :> 0) @@ (2 :> 5) @@ (3 :> 7) @@ (4 :> 3),
      (1 :> 0) @@ (2 :> 5) @@ (4 :> 5),
      (1 :> 0) @@ (2 :> 0) }
SecondLeverSeries == (1 :> 0) @@ (2 :> -5) @@ (3 :> 1) @@ (4 :> 1)
ControlSeries ==
    { (1 :> 4) @@ (2 :> 4) @@ (3 :> 4) @@ (4 :> 4),
      (1 :> 2) @@ (2 :> 2) }
SecondControlSeries == (1 :> 6) @@ (3 :> 6)

\* rows of ab_test_result joined with its source, unit and category masters
Result(store, period, source, unit, category, value) ==
    [store_id |-> store, period_id |-> period, source_name |-> source,
     unit_name |-> unit, category_name |-> category, value |-> value]

SeriesRows(store, series) ==
    {Result(store, p, src, Unit1, Category1, series[p]) :
        p \in DOMAIN series, src \in {SellIn, SellOut}}

\* the measurements of a store table: every store has its series in both
\* sources, and the first control store also has a row in the second unit
Measurements(S, leverSeries, controlSeries) ==
    UNION { SeriesRows(s.id,
                CASE s.id = 1 -> leverSeries
                  [] s.id = 5 -> controlSeries
                  [] s.id = 6 -> SecondControlSeries
                  [] OTHER -> SecondLeverSeries) : s \in S }
    \cup {Result(s.id, 2, src, Unit2, Category1, 9) :
            s \in {x \in S : x.id = 5}, src \in {SellIn, SellOut}}

\* --------------------------------------------------------------------------
\* UnifiedDatabaseService.get_evolution_timeline_data: the statements
\* --------------------------------------------------------------------------
filter_labels ==
    [tipologia |-> "Tipologia", fuente |-> "Fuente de Datos",
     unidad |-> "Unidad de Medida", categoria |-> "Categoria",
     palanca |-> "Palanca"]

\* "not x" for an optional string: None or the empty string
IsMissing(x) == x = NULL \/ x = ""

LabelIfMissing(x, label) == IF IsMissing(x) THEN <<label>> ELSE <<>>

MissingFiltersButPalanca(tipologia, fuente, unidad, categoria, palanca) ==
    LabelIfMissing(tipologia, filter_labels.tipologia)
        \o LabelIfMissing(fuente, filter_labels.fuente)
        \o LabelIfMissing(unidad, filter_labels.unidad)
        \o LabelIfMissing(categoria, filter_labels.categoria)

MissingFilters(tipologia, fuente, unidad, categoria, palanca) ==
    LabelIfMissing(tipologia, filter_labels.tipologia)
        \o LabelIfMissing(fuente, filter_labels.fuente)
        \o LabelIfMissing(unidad, filter_labels.unidad)
        \o LabelIfMissing(categoria, filter_labels.categoria)
        \o LabelIfMissing(palanca, filter_labels.palanca)

start_date_column(s, fuente) ==
    IF fuente = SellIn THEN s.start_date_sellin ELSE s.start_date_sellout
end_date_column(s, fuente) ==
    IF fuente = SellIn THEN s.end_date_sellin ELSE s.end_date_sellout

\* WHERE typology_name = :tipologia AND lever_name = :palanca AND is_active
PalancaStores(S, tipologia, palanca) ==
    {s \in S : s.typology_name = tipologia /\ s.lever_name = palanca /\ s.is_active}

MaxDate(D) == IF D = {} THEN NoDate ELSE CHOOSE d \in D : \A e \in D : e <= d
MinDate(D) == IF D = {} THEN NoDate ELSE CHOOSE d \in D : \A e \in D : d <= e

\* most frequent start date, ties to the earliest; NoDate when no row
project_start_query(S, tipologia, fuente, palanca) ==
    LET G == {s \in PalancaStores(S, tipologia, palanca) :
                 start_date_column(s, fuente) # NoDate}
        dates == {start_date_column(s, fuente) : s \in G}
        count(d) == Cardinality({s \in G : start_date_column(s, fuente) = d})
    IN  MinDate({d \in dates : \A e \in dates : count(e) <= count(d)})

city_query(S, tipologia, palanca) ==
    {s.city_id : s \in {x \in PalancaStores(S, tipologia, palanca) : x.city_id # NULL}}

palanca_end_query(S, tipologia, fuente, palanca) ==
    MaxDate({end_date_column(s, fuente) : s \in PalancaStores(S, tipologia, palanca)}
                \ {NoDate})

\* 'Sell Out' in fuente or 'SOM' in fuente, over the source names of the store
is_sell_out(fuente) == fuente = SellOut

\* AVG(r.value) of a group as the exact fraction sum / count
RECURSIVE SumValues(_)
SumValues(R) ==
    IF R = {} THEN 0
    ELSE LET r == CHOOSE x \in R : TRUE IN r.value + SumValues(R \ {r})

Avg(R) == [num |-> SumValues(R), den |-> Cardinality(R)]
Zero == [num |-> 0, den |-> 1]           \* 0.0
NoValue == [num |-> 0, den |-> 0]        \* None

\* the rows of palanca_query / control_query for the member stores: one row per
\* (period_label, start_date, end_date) that has a matching measurement
AvgRows(members, P, M, fuente, unidad, categoria) ==
    LET ids == {s.id : s \in members}
        R == {r \in M : /\ r.store_id \in ids
                        /\ r.source_name = fuente
                        /\ r.unit_name = unidad
                        /\ r.category_name = categoria
                        /\ \E p \in P : p.period_id = r.period_id}
        PeriodOf(r) == CHOOSE p \in P : p.period_id = r.period_id
        Key(r) == <<PeriodOf(r).period_label, PeriodOf(r).start_date,
                    PeriodOf(r).end_date>>
    IN  {[period_label |-> k[1], start_date |-> k[2], end_date |-> k[3],
          avg_value |-> Avg({r \in R : Key(r) = k})] : k \in {Key(r) : r \in R}}

\* lever_name = 'Control', narrowed to the lever's cities for Droguerias
ControlStores(S, tipologia, palanca_cities) ==
    {s \in S : /\ s.lever_name = ControlLever
               /\ s.typology_name = tipologia
               /\ s.is_active
               /\ (tipologia = Droguerias /\ palanca_cities # {})
                     => s.city_id \in palanca_cities}

\* ORDER BY p.start_date: every order of the rows that is sorted by start
\* date (the order of rows with equal start dates is not determined)
RECURSIVE OrderedByStartDate(_)
OrderedByStartDate(R) ==
    IF R = {} THEN {<<>>}
    ELSE LET m == MinDate({r.start_date : r \in R})
         IN  UNION { {<<r>> \o rest : rest \in OrderedByStartDate(R \ {r})} :
                        r \in {x \in R : x.start_date = m} }

IsPositive(avg_value) == avg_value.den > 0 /\ avg_value.num > 0

FirstPositiveDate(palanca_rows) ==
    LET I == {i \in 1..Len(palanca_rows) : IsPositive(palanca_rows[i].avg_value)}
    IN  IF I = {} THEN NoDate ELSE palanca_rows[MinOf(I)].start_date

IncludePeriodNoEndDate(row, first_positive_date, palanca_end_date) ==
    /\ first_positive_date # NoDate
    /\ row.start_date >= first_positive_date

include_period(row, first_positive_date, palanca_end_date) ==
    /\ first_positive_date # NoDate
    /\ row.start_date >= first_positive_date
    /\ (palanca_end_date = NoDate \/ row.start_date <= palanca_end_date)

\* a dict keyed by period_label, in insertion order
DictHas(d, label) == \E i \in 1..Len(d) : d[i].period_label = label
DictGet(d, label) == d[CHOOSE i \in 1..Len(d) : d[i].period_label = label]
DictPut(d, e) ==
    IF DictHas(d, e.period_label)
    THEN [i \in 1..Len(d) |-> IF d[i].period_label = e.period_label THEN e ELSE d[i]]
    ELSE Append(d, e)

DictEntry(row, sell_out) ==
    [period_label |-> row.period_label,
     value |-> IF row.avg_value.num # 0 THEN row.avg_value ELSE Zero,
     start_date |-> row.start_date,
     end_date |-> row.end_date,
     display_date |-> IF sell_out THEN row.end_date ELSE row.start_date]

\* palanca_dict / control_dict built from the first n rows
RECURSIVE PeriodDict(_, _, _, _, _)
PeriodDict(rows, n, first_positive_date, palanca_end_date, sell_out) ==
    IF n = 0 THEN <<>>
    ELSE LET d == PeriodDict(rows, n - 1, first_positive_date, palanca_end_date,
                             sell_out)
         IN  IF include_period(rows[n], first_positive_date, palanca_end_date)
             THEN DictPut(d, DictEntry(rows[n], sell_out))
             ELSE d

AllPeriods(palanca_dict, control_dict) ==
    palanca_dict \o SelectSeq(control_dict,
                              LAMBDA e : ~DictHas(palanca_dict, e.period_label))

\* sorted(..., key=start_date): stable
RECURSIVE SortedByStartDate(_)
SortedByStartDate(s) ==
    IF s = <<>> THEN <<>>
    ELSE LET m == MinDate({s[i].start_date : i \in 1..Len(s)})
             k == MinOf({i \in 1..Len(s) : s[i].start_date = m})
         IN  <<s[k]>> \o SortedByStartDate(SubSeq(s, 1, k - 1) \o SubSeq(s, k + 1, Len(s)))

TimelineData(sorted_periods, palanca_dict, control_dict) ==
    [i \in 1..Len(sorted_periods) |->
        LET label == sorted_periods[i].period_label IN
        [period_label |-> label,
         start_date |-> sorted_periods[i].start_date,
         display_date |-> sorted_periods[i].display_date,
         palanca_value |-> IF DictHas(palanca_dict, label)
                           THEN DictGet(palanca_dict, label).value ELSE NoValue,
         control_value |-> IF DictHas(control_dict, label)
                           THEN DictGet(control_dict, label).value ELSE NoValue]]

\* the anchor date, moved onto the display date of the first emitted period
\* that contains it when the source is sell-out style
ProjectStartDisplay(project_start_date, sell_out, timeline_data) ==
    LET I == {i \in 1..Len(timeline_data) :
                 /\ timeline_data[i].start_date <= project_start_date
                 /\ project_start_date <= timeline_data[i].display_date}
    IN  IF sell_out /\ project_start_date # NoDate /\ I # {}
        THEN timeline_data[MinOf(I)].display_date
        ELSE project_start_date

NoResult == [kind |-> "none"]
NoArgs == [kind |-> "none"]

MissingFiltersMessage == "Filtros faltantes para mostrar evolucion"

FilterArgs(tipologia, fuente, unidad, categoria, palanca) ==
    [tipologia |-> tipologia, fuente |-> fuente, unidad |-> unidad,
     categoria |-> categoria, palanca |-> palanca]

\* the success result for one order of the rows of the two series
TimelineResult(a, S, palanca_rows, control_rows) ==
    LET project_start_date == project_start_query(S, a.tipologia, a.fuente, a.palanca)
        palanca_end_date == palanca_end_query(S, a.tipologia, a.fuente, a.palanca)
        sell_out == is_sell_out(a.fuente)
        first_positive_date == FirstPositiveDate(palanca_rows)
        palanca_dict == PeriodDict(palanca_rows, Len(palanca_rows),
                                   first_positive_date, palanca_end_date, sell_out)
        control_dict == PeriodDict(control_rows, Len(control_rows),
                                   first_positive_date, palanca_end_date, sell_out)
        sorted_periods == SortedByStartDate(AllPeriods(palanca_dict, control_dict))
        timeline_data == TimelineData(sorted_periods, palanca_dict, control_dict)
    IN  [success |-> TRUE,
         data |-> timeline_data,
         palanca_name |-> a.palanca,
         tipologia |-> a.tipologia,
         project_start_date |-> project_start_date,
         project_start_display |->
             ProjectStartDisplay(project_start_date, sell_out, timeline_data),
         palanca_end_date |-> palanca_end_date,
         filtered_by |-> a]

\* statements handed to session.execute by a call that runs to the end
StatementsIssued(tipologia) == IF tipologia = Droguerias THEN 5 ELSE 4

\* --------------------------------------------------------------------------
\* GET /api/dashboard/evolution-data
\* --------------------------------------------------------------------------
\* values of request.args.get for the five filters
TipologiaArgs == {NULL, "", Droguerias, Tiendas}
FuenteArgs == {NULL, SellIn, SellOut}
UnidadArgs == {"", Unit1, Unit2}
CategoriaArgs == {NULL, Category1}
PalancaArgs == {"", Lever1}

\* get_evolution_timeline_data(tipologia, fuente, unidad, categoria, palanca);
\* dbUp: the store answers the statements (otherwise the first one raises)
GetEvolutionTimelineData(tipologia, fuente, unidad, categoria, palanca, dbUp) ==
    /\ alignResult = NoResult
    /\ alignArgs' = FilterArgs(tipologia, fuente, unidad, categoria, palanca)
    /\ LET missing_filters ==
               MissingFilters(tipologia, fuente, unidad, categoria, palanca)
       IN  IF missing_filters # <<>>
           THEN /\ alignResult' = [success |-> FALSE,
                                   message |-> MissingFiltersMessage,
                                   missing_filters |-> missing_filters,
                                   data |-> <<>>]
                /\ dbQueries' = 0
                /\ controlUsed' = {}
           ELSE IF ~dbUp
           THEN /\ alignResult' = [success |-> FALSE, error |-> DbError,
                                   data |-> <<>>]
                /\ dbQueries' = 1
                /\ controlUsed' = {}
           ELSE LET palanca_cities ==
                        IF tipologia = Droguerias
                        THEN city_query(stores, tipologia, palanca) ELSE {}
                    palanca_set ==
                        AvgRows(PalancaStores(stores, tipologia, palanca),
                                periods, meas, fuente, unidad, categoria)
                    control_set ==
                        AvgRows(ControlStores(stores, tipologia, palanca_cities),
                                periods, meas, fuente, unidad, categoria)
                IN  /\ \E palanca_rows \in OrderedByStartDate(palanca_set),
                          control_rows \in OrderedByStartDate(control_set) :
                          alignResult' = TimelineResult(
                              FilterArgs(tipologia, fuente, unidad, categoria, palanca),
                              stores, palanca_rows, control_rows)
                    /\ dbQueries' = StatementsIssued(tipologia)
                    /\ controlUsed' =
                           {s.id : s \in ControlStores(stores, tipologia, palanca_cities)}
    /\ UNCHANGED <<stores, periods, meas, pipeVars, cacheVars, restVars>>

\* the route returns jsonify(results), 200: the request is over
EvolutionDataReply ==
    /\ alignResult # NoResult
    /\ alignArgs' = NoArgs
    /\ alignResult' = NoResult
    /\ dbQueries' = 0
    /\ controlUsed' = {}
    /\ UNCHANGED <<stores, periods, meas, pipeVars, cacheVars, restVars>>


\* --------------------------------------------------------------------------
\* Simulation calculator: the tables it reads
\* --------------------------------------------------------------------------
SuperHiper == "Super e hiper"
Conveniencia == "Conveniencia"
Desconocida == "Desconocida"        \* a name that is in no table
PuntaDeGondola == "Punta de gondola"
MetroCuadrado == "Metro cuadrado"

\* get_ols_params: table_mapping
table_mapping ==
    (SuperHiper :> "ols_params_super_hiper")
        @@ (Conveniencia :> "ols_params_conveniencia")
        @@ (Droguerias :> "ols_params_drogas")

\* calculate_simulation: vol_inicial_mapping
vol_inicial_mapping ==
    (SuperHiper :> [Pequeno |-> 50, Mediano |-> 100, Grande |-> 150])
        @@ (Conveniencia :> [Pequeno |-> 20, Mediano |-> 40, Grande |-> 45])
        @@ (Droguerias :> [Pequeno |-> 10, Mediano |-> 15, Grande |-> 20])

\* calculate_simulation: palanca_mapping (lever name -> OLS parameter name)
palanca_mapping ==
    ("Exhibicion adicional mamut" :> "exhibicion_adicional_mamut")
        @@ ("Nevera en punto de pago" :> "nevera_en_punto_de_pago")
        @@ ("Entrepano con comunicacion" :> "entrepano_con_comunicacion")
        @@ ("Cajero vendedor" :> "cajero_vendedor")
        @@ ("Tienda multipalanca" :> "tienda_multipalanca")
        @@ (PuntaDeGondola :> "punta_de_gondola")
        @@ ("Mini vallas en fachada" :> "mini_vallas_en_fachada")
        @@ (MetroCuadrado :> "metro_cuadrado")
        @@ ("Rompe trafico cross category" :> "rompe_trafico_cross_category")

\* typology_master and lever_master
TypologyMaster == {SuperHiper, Conveniencia, Droguerias, Tiendas}
LeverMaster == DOMAIN palanca_mapping \cup {ControlLever}

\* contents of an ols_params_* table: feature -> parametro
OlsParamSets ==
    { ("Intercept" :> 10) @@ ("q_frentes" :> 1) @@ ("punta_de_gondola" :> 5)
          @@ ("metro_cuadrado" :> 3),
      ("Intercept" :> -200) @@ ("q_frentes" :> 1) @@ ("punta_de_gondola" :> 5),
      ("Intercept" :> 3) @@ ("q_frentes_competencia" :> -1)
          @@ ("punta_de_gondola" :> 1) @@ ("metro_cuadrado" :> -20)
          @@ ("carga_check" :> 4),
      ("Intercept" :> -100) @@ ("vol_inicial" :> 1) @@ ("punta_de_gondola" :> 7)
          @@ ("q_edf_ad" :> 2),
      <<>> }

\* a row of capex_fee joined with typology_master and lever_master (USD)
CostRow(typology, lever, capex, fee) ==
    [typology_name |-> typology, lever_name |-> lever, capex |-> capex, fee |-> fee]

\* capex_fee: a row for both levers, a row for one lever only, a lever at no
\* cost, and no row at all
CostTables ==
    { {CostRow(t, PuntaDeGondola, 50, 1) : t \in {SuperHiper, Conveniencia}}
          \cup {CostRow(t, MetroCuadrado, 30, 2) : t \in {SuperHiper, Conveniencia}},
      {CostRow(t, PuntaDeGondola, 50, 1) : t \in {SuperHiper, Conveniencia}},
      {CostRow(t, PuntaDeGondola, 0, 0) : t \in {SuperHiper, Conveniencia}}
          \cup {CostRow(Conveniencia, MetroCuadrado, 30, 0)},
      {} }

\* the elements of a list
Elems(list) == {list[i] : i \in 1..Len(list)}

\* --------------------------------------------------------------------------
\* get_ols_params and get_capex_fee_by_palancas
\* --------------------------------------------------------------------------
get_ols_params(tables, tipologia, dbUp) ==
    IF tipologia \notin DOMAIN table_mapping
    THEN [success |-> FALSE, error |-> <<"Tipologia no valida", tipologia>>,
          params |-> <<>>]
    ELSE IF ~dbUp \/ tipologia \notin DOMAIN tables
    THEN [success |-> FALSE, error |-> <<DbError>>, params |-> <<>>]
    ELSE [success |-> TRUE, params |-> tables[tipologia], tipologia |-> tipologia,
          table |-> table_mapping[tipologia]]

\* lever_rows is empty: no requested name is in lever_master
NoLeverRowsNever(lever_rows) == FALSE

NoLeverRows(lever_rows) == lever_rows = {}

RECURSIVE SumField(_, _)
SumField(R, field) ==
    IF R = {} THEN 0
    ELSE LET r == CHOOSE x \in R : TRUE IN r[field] + SumField(R \ {r}, field)

get_capex_fee_by_palancas(costs, tipologia, palancas, dbUp) ==
    LET failure(e) == [success |-> FALSE, error |-> e, breakdown |-> {},
                       total_capex_usd |-> 0, total_fee_usd |-> 0]
        lever_rows == LeverMaster \cap Elems(palancas)
        capex_rows == {c \in costs : /\ c.typology_name = tipologia
                                     /\ c.lever_name \in lever_rows}
    IN  IF ~dbUp THEN failure(<<DbError>>)
        ELSE IF tipologia \notin TypologyMaster
        THEN failure(<<"Tipologia no encontrada", tipologia>>)
        ELSE IF NoLeverRows(lever_rows)
        THEN failure(<<"No se encontraron palancas validas">>)
        ELSE [success |-> TRUE,
              breakdown |-> {[palanca |-> c.lever_name, capex_usd |-> c.capex,
                              fee_usd |-> c.fee] : c \in capex_rows},
              total_capex_usd |-> SumField(capex_rows, "capex"),
              total_fee_usd |-> SumField(capex_rows, "fee"),
              tipologia |-> tipologia]

\* --------------------------------------------------------------------------
\* calculate_simulation
\* --------------------------------------------------------------------------
\* round(n / d, k) for d > 0, as the integer n / d rounded half to even
RoundHalfEven(n, d) ==
    LET q == n \div d
        r == n - q * d
    IN  IF 2 * r < d THEN q
        ELSE IF 2 * r > d THEN q + 1
        ELSE IF q % 2 = 0 THEN q ELSE q + 1

\* a variant in which every lever indicator of the vocabulary is switched on
FeatureVectorAllLeversOn(tipologia, palancas, tamano_tienda, features) ==
    LET edf == IF tipologia = SuperHiper
               THEN ("q_edf_ad" :> GetOr(features, "equiposFrioPropios", 0))
                    @@ ("q_edf_ad_competencia" :> GetOr(features, "equiposFrioCompetencia", 0))
               ELSE <<>>
    IN  ("planograma_ejecucion_check" :> 1) @@ ("precios_check" :> 1)
            @@ ("carga_check" :> 1)
            @@ ("q_frentes" :> GetOr(features, "frentesPropios", 0))
            @@ ("q_frentes_competencia" :> GetOr(features, "frentesCompetencia", 0))
            @@ ("q_sku" :> GetOr(features, "skuPropios", 0))
            @@ ("q_sku_competencia" :> GetOr(features, "skuCompetencia", 0))
            @@ edf
            @@ ("q_cof_puertas" :> GetOr(features, "puertasPropias", 0))
            @@ ("q_cof_puertas_competencia" :> GetOr(features, "puertasCompetencia", 0))
            @@ ("vol_inicial" :>
                   GetOr(GetOr(vol_inicial_mapping, tipologia, <<>>), tamano_tienda, 50))
            @@ [p \in {palanca_mapping[l] : l \in DOMAIN palanca_mapping} |-> 1]

\* feature_vector: the execution checks, the user's features, vol_inicial and
\* one indicator per entry of palanca_mapping
FeatureVector(tipologia, palancas, tamano_tienda, features) ==
    LET selected == {palanca_mapping[l] : l \in Elems(palancas) \cap DOMAIN palanca_mapping}
        palanca_params == {palanca_mapping[l] : l \in DOMAIN palanca_mapping}
        edf == IF tipologia = SuperHiper
               THEN ("q_edf_ad" :> GetOr(features, "equiposFrioPropios", 0))
                    @@ ("q_edf_ad_competencia" :> GetOr(features, "equiposFrioCompetencia", 0))
               ELSE <<>>
    IN  ("planograma_ejecucion_check" :> 1) @@ ("precios_check" :> 1)
            @@ ("carga_check" :> 1)
            @@ ("q_frentes" :> GetOr(features, "frentesPropios", 0))
            @@ ("q_frentes_competencia" :> GetOr(features, "frentesCompetencia", 0))
            @@ ("q_sku" :> GetOr(features, "skuPropios", 0))
            @@ ("q_sku_competencia" :> GetOr(features, "skuCompetencia", 0))
            @@ edf
            @@ ("q_cof_puertas" :> GetOr(features, "puertasPropias", 0))
            @@ ("q_cof_puertas_competencia" :> GetOr(features, "puertasCompetencia", 0))
            @@ ("vol_inicial" :>
                   GetOr(GetOr(vol_inicial_mapping, tipologia, <<>>), tamano_tienda, 50))
            @@ [p \in palanca_params |-> IF p \in selected THEN 1 ELSE 0]

\* Intercept + the sum of coefficient * value over the features in names
RECURSIVE Prediction(_, _, _)
Prediction(ols_params, feature_vector, names) ==
    IF names = {} THEN GetOr(ols_params, "Intercept", 0)
    ELSE LET n == CHOOSE x \in names : TRUE
         IN  GetOr(ols_params, n, 0) * feature_vector[n]
                 + Prediction(ols_params, feature_vector, names \ {n})

UpliftUnguarded(with, control) ==
    IF control > 0 THEN RoundHalfEven(10000 * (with - control), control)
    ELSE 10000 * (with - control)

\* round(uplift_percent, 2), in hundredths of a percent
UpliftPercent(with, control) ==
    IF control > 0 THEN RoundHalfEven(10000 * (with - control), control) ELSE 0

NoPayback == [is_null |-> TRUE, tenths |-> 0]          \* None

PaybackOfAnyProfit(total_capex_cop, monthly_profit100) ==
    IF monthly_profit100 > 0
    THEN [is_null |-> FALSE,
          tenths |-> RoundHalfEven(1000 * total_capex_cop, monthly_profit100)]
    ELSE [is_null |-> FALSE, tenths |-> 0]

\* round(payback_months, 1) in tenths of a month, None for float('inf');
\* monthly_profit100 is monthly_profit in hundredths
Payback(total_capex_cop, monthly_profit100) ==
    IF monthly_profit100 > 0
    THEN [is_null |-> FALSE,
          tenths |-> RoundHalfEven(1000 * total_capex_cop, monthly_profit100)]
    ELSE NoPayback

\* round(roi_12m, 2) in hundredths; ganancia100 is ganancia_incremental in hundredths
Roi12m(ganancia100, total_capex_cop, total_fee_cop) ==
    LET denominator == total_capex_cop + 12 * total_fee_cop
    IN  IF denominator > 0
        THEN RoundHalfEven(12 * ganancia100 - 100 * (12 * total_fee_cop + total_capex_cop),
                           denominator)
        ELSE 0

\* the result of UnifiedDatabaseService.calculate_simulation; maco is a
\* percentage, money is whole units, ganancia_incremental is in hundredths
calculate_simulation(tables, costs, a, dbUp) ==
    LET ols_data == get_ols_params(tables, a.tipologia, dbUp)
        capex_data == get_capex_fee_by_palancas(costs, a.tipologia, a.palancas, dbUp)
        total_capex_cop == capex_data.total_capex_usd * a.exchange_rate
        total_fee_cop == capex_data.total_fee_usd * a.exchange_rate
        feature_vector == FeatureVector(a.tipologia, a.palancas, a.tamano_tienda, a.features)
        prediction_with_palanca ==
            Prediction(ols_data.params, feature_vector, DOMAIN feature_vector)
        \* the same vector with every lever indicator at 0
        feature_vector_control ==
            [n \in DOMAIN feature_vector |->
                IF n \in {palanca_mapping[l] : l \in DOMAIN palanca_mapping}
                THEN 0 ELSE feature_vector[n]]
        prediction_control ==
            Prediction(ols_data.params, feature_vector_control,
                       DOMAIN feature_vector_control)
        ganancia100 == (prediction_with_palanca - prediction_control) * a.maco
    IN  IF ~ols_data.success THEN [success |-> FALSE, error |-> ols_data.error]
        ELSE IF ~capex_data.success THEN [success |-> FALSE, error |-> capex_data.error]
        ELSE [success |-> TRUE,
              uplift |-> UpliftPercent(prediction_with_palanca, prediction_control),
              roi |-> Roi12m(ganancia100, total_capex_cop, total_fee_cop),
              payback |-> Payback(total_capex_cop, ganancia100 - 100 * total_fee_cop),
              capex_breakdown |-> capex_data.breakdown,
              total_capex_usd |-> capex_data.total_capex_usd,
              total_fee_usd |-> capex_data.total_fee_usd,
              total_capex_cop |-> total_capex_cop,
              total_fee_cop |-> total_fee_cop,
              prediction_with_palanca |-> prediction_with_palanca,
              prediction_control |-> prediction_control,
              vol_inicial |-> feature_vector["vol_inicial"],
              ganancia_incremental |-> ganancia100]

\* --------------------------------------------------------------------------
\* POST /api/simulation/calculate and direct calls of calculate_simulation
\* --------------------------------------------------------------------------
\* the request bodies the calculator is exercised on; a missing required field
\* is drawn separately
SimulationArgs ==
    [tipologia : {SuperHiper, Conveniencia, Tiendas, Desconocida},
     palancas : { <<>>, <<PuntaDeGondola>>, <<MetroCuadrado>>,
                  <<PuntaDeGondola, MetroCuadrado>>, <<PuntaDeGondola, Desconocida>>,
                  <<Desconocida>>, <<ControlLever>> },
     tamano_tienda : {"Mediano", "XL"},
     features : { <<>>,
                  ("frentesPropios" :> 4) @@ ("frentesCompetencia" :> 6)
                      @@ ("equiposFrioPropios" :> 1) },
     maco : {0, 35, 100},
     exchange_rate : {1, 4}]

\* the route handler calculate_simulation of simulation_routes
CalculateRoute(missing_fields, a, dbUp) ==
    /\ simResult = NoResult
    /\ simArgs' = a
    /\ simResult' =
          IF missing_fields # <<>>
          THEN [via |-> "route", status |-> 400,
                body |-> [success |-> FALSE,
                          error |-> <<"Campos requeridos faltantes">> \o missing_fields]]
          ELSE IF Len(a.palancas) = 0
          THEN [via |-> "route", status |-> 400,
                body |-> [success |-> FALSE,
                          error |-> <<"Debes seleccionar al menos una palanca">>]]
          ELSE LET result == calculate_simulation(olsTables, capexFee, a, dbUp)
               IN  [via |-> "route",
                    status |-> IF result.success THEN 200 ELSE 400,
                    body |-> result]
    /\ UNCHANGED <<olsTables, capexFee, pipeVars, cacheVars, alignVars, memVars, svcVars,
                   extraVars>>

\* unified_db.calculate_simulation called by another caller than the route
CalculateDirect(a, dbUp) ==
    /\ simResult = NoResult
    /\ simArgs' = a
    /\ simResult' = [via |-> "direct",
                     body |-> calculate_simulation(olsTables, capexFee, a, dbUp)]
    /\ UNCHANGED <<olsTables, capexFee, pipeVars, cacheVars, alignVars, memVars, svcVars,
                   extraVars>>

\* the response is delivered: the request is over
SimulationReply ==
    /\ simResult # NoResult
    /\ simArgs' = NoArgs
    /\ simResult' = NoResult
    /\ UNCHANGED <<olsTables, capexFee, pipeVars, cacheVars, alignVars, memVars, svcVars,
                   extraVars>>

\* --------------------------------------------------------------------------
\* ConversationMemory with a bound given to its constructor
\* --------------------------------------------------------------------------
MaxAdds == 25

\* the values of max_messages a memory is constructed with
MemoryBounds == {1, 2, 3, 5, max_messages}

\* ConversationMemory.__init__
NewMemory(n) == [messages |-> <<>>, max_messages |-> n]

\* a variant that keeps the first max_messages messages
AddMessageKeepOldest(mem, role, content) ==
    LET m == Append(mem.messages, [role |-> role, content |-> content])
    IN  [mem EXCEPT !.messages =
            IF Len(m) > mem.max_messages THEN SubSeq(m, 1, mem.max_messages) ELSE m]

\* ConversationMemory.add_message: append, then keep messages[-max_messages:]
add_message(mem, role, content) ==
    LET m == Append(mem.messages, [role |-> role, content |-> content])
    IN  [mem EXCEPT !.messages =
            IF Len(m) > mem.max_messages
            THEN SubSeq(m, Len(m) - mem.max_messages + 1, Len(m))
            ELSE m]

\* ConversationMemory.get_messages_for_api; the system prompt is content 0
get_messages_for_api(mem) == <<[role |-> "system", content |-> 0]>> \o mem.messages

\* the k-th add_message call: its content is k, the roles alternate as in
\* get_response (the user's message, then the answer)
MemoryAddMessage ==
    /\ memTurns < MaxAdds
    /\ LET k == memTurns + 1
           role == IF k % 2 = 1 THEN "user" ELSE "assistant"
       IN  /\ memory' = add_message(memory, role, k)
           /\ memLog' = Append(memLog, [role |-> role, content |-> k])
           /\ memTurns' = k
    /\ UNCHANGED <<pipeVars, cacheVars, alignVars, simVars, svcVars,
                   extraVars>>

\* ConversationMemory.clear
MemoryClear ==
    /\ memory.messages # <<>>
    /\ memory' = [memory EXCEPT !.messages = <<>>]
    /\ memLog' = <<>>
    /\ UNCHANGED <<memTurns, pipeVars, cacheVars, alignVars, simVars, svcVars,
                   extraVars>>

\* a memory nobody uses
MemIdle ==
    /\ memory = NewMemory(max_messages)
    /\ memLog = <<>>
    /\ memTurns = 0
\* --------------------------------------------------------------------------
\* ChatbotService.process_message served by concurrent request threads
\* --------------------------------------------------------------------------
\* the threaded server runs each request of the session in a thread of its own
Threads == {1, 2, 3}
Session == "s1"

\* the message thread t submits and the answer the model gives to it
Question(t) == <<"question", t>>
Answer(t) == <<"answer", t>>

\* the history of a session that already had one turn
EarlierTurn ==
    AddMessage(AddMessage(<<>>, "user", Question(0)), "assistant", Answer(0))

\* process_message up to get_chatbot: "if session_id not in self.chatbots"
GetChatbotCheck(t) ==
    /\ svcPc[t] = "start"
    /\ svcPc' = [svcPc EXCEPT ![t] =
                    IF Session \in DOMAIN chatbots THEN "return" ELSE "create"]
    /\ UNCHANGED <<chatbots, botMessages, svcBot, pipeVars, cacheVars, alignVars,
                   simVars, memVars, extraVars>>

\* get_chatbot: self.chatbots[session_id] = ABTestingChatbot()
GetChatbotCreate(t) ==
    /\ svcPc[t] = "create"
    /\ LET bot == Cardinality(DOMAIN botMessages) + 1
       IN  /\ botMessages' = botMessages @@ (bot :> <<>>)
           /\ chatbots' = (Session :> bot)
    /\ svcPc' = [svcPc EXCEPT ![t] = "return"]
    /\ UNCHANGED <<svcBot, pipeVars, cacheVars, alignVars, simVars, memVars, extraVars>>

\* get_chatbot: return self.chatbots[session_id]
GetChatbotReturn(t) ==
    /\ svcPc[t] = "return"
    /\ svcBot' = [svcBot EXCEPT ![t] = chatbots[Session]]
    /\ svcPc' = [svcPc EXCEPT ![t] = "respond"]
    /\ UNCHANGED <<chatbots, botMessages, pipeVars, cacheVars, alignVars, simVars,
                   memVars, extraVars>>

\* get_response: self.memory.add_message("user", user_message)
AddUserMessage(t) ==
    /\ svcPc[t] = "respond"
    /\ botMessages' = [botMessages EXCEPT
                          ![svcBot[t]] = AddMessage(@, "user", Question(t))]
    /\ svcPc' = [svcPc EXCEPT ![t] = "model"]
    /\ UNCHANGED <<chatbots, svcBot, pipeVars, cacheVars, alignVars, simVars, memVars, extraVars>>

\* get_response, after the model has answered:
\* self.memory.add_message("assistant", assistant_message)
AddAssistantMessage(t) ==
    /\ svcPc[t] = "model"
    /\ botMessages' = [botMessages EXCEPT
                          ![svcBot[t]] = AddMessage(@, "assistant", Answer(t))]
    /\ svcPc' = [svcPc EXCEPT ![t] = "done"]
    /\ UNCHANGED <<chatbots, svcBot, pipeVars, cacheVars, alignVars, simVars, memVars, extraVars>>

\* no request is being served
SvcIdle ==
    /\ chatbots = <<>>
    /\ botMessages = <<>>
    /\ svcPc = [t \in Threads |-> "idle"]
    /\ svcBot = [t \in Threads |-> 0]
\* --------------------------------------------------------------------------
\* QuestionGeneratorService.generate_follow_up_questions over the shared cache
\* --------------------------------------------------------------------------
MaxQuestionCalls == 3

cache_ttl == 1800

\* cache_key: cache_prefix, session_id and hash(last_question + last_response);
\* the hash is taken as injective, so the concatenation stands for it
QuestionCacheKey(session_id, last_question, last_response) ==
    <<"questions_", session_id>> \o last_question \o last_response

\* _generate_rule_based: the base questions of the category of last_question,
\* without last_question itself, at most four
RuleBasedQuestions(last_question) ==
    LET category == IF "pdv" \in {last_question[i] : i \in 1..Len(last_question)}
                    THEN "pdv_analysis" ELSE "initial"
    IN  <<category, "base questions">>

\* what _generate_with_openai returns; NULL when it raises
LlmQuestionLists == {<<"follow-up a">>, <<"follow-up b">>, <<NULL>>}

KeyErrorOf(key) == [kind |-> "raised", error |-> <<"KeyError", key>>]

\* generate_follow_up_questions(last_question, last_response, history, session_id)
GenerateFollowUpQuestions(session_id, last_question, last_response, llm) ==
    LET key == QuestionCacheKey(session_id, last_question, last_response)
        g == CacheGet(cache, key, now)
        questions == IF llm = <<NULL>> THEN RuleBasedQuestions(last_question) ELSE llm
    IN  /\ total_queries < MaxQuestionCalls
        /\ total_queries' = total_queries + 1
        /\ cache_hits' = cache_hits + (IF g.hit THEN 1 ELSE 0)
        /\ cache_misses' = cache_misses + (IF g.hit THEN 0 ELSE 1)
        /\ lastGet' = [query |-> key, out |-> g.out]
        /\ IF g.out = Miss
           THEN \* cached_questions is None: generate and cache
                /\ qLlmCalls' = qLlmCalls + 1
                /\ cache' = CacheSet(g.cache, key, [questions |-> questions],
                                     cache_ttl, now)
                /\ written' = [x \in DOMAIN written \cup {Lower(Strip(key))} |->
                                 IF x = Lower(Strip(key))
                                 THEN [result |-> [questions |-> questions],
                                       expires_at |-> now + cache_ttl]
                                 ELSE written[x]]
                /\ setCount' = setCount + 1
                /\ qOut' = [kind |-> "value", questions |-> questions]
           ELSE \* query_cache.get raised, or its payload has no 'questions'
                /\ qOut' = IF g.out.kind = "raised" THEN KeyErrorOf("success")
                           ELSE KeyErrorOf("questions")
                /\ cache' = g.cache
                /\ UNCHANGED <<qLlmCalls, written, setCount>>
        /\ UNCHANGED <<now, tickCount, pipeVars, alignVars, simVars, memVars, svcVars,
                       qOthers>>

\* the clock advances between two requests for suggestions
QuestionTick(d) ==
    /\ Tick(d)
    /\ UNCHANGED qVars

QIdle ==
    /\ qOut = NoResult
    /\ qLlmCalls = 0
\* --------------------------------------------------------------------------
\* ChatbotService.get_session_history over the memory of the session's chatbot
\* --------------------------------------------------------------------------
MaxHistoryTurns == 12

\* turns of the session so far: one user message was added for each
TurnsSoFar == Cardinality({i \in 1..Len(memLog) : memLog[i].role = "user"})

\* get_response of a turn that is answered: the user message is added at
\* line 24 and the assistant message at line 136
TurnAnswered ==
    /\ sessionHistory = NoResult
    /\ TurnsSoFar < MaxHistoryTurns
    /\ LET q == memTurns + 1
           a == memTurns + 2
       IN  /\ memory' = add_message(add_message(memory, "user", q), "assistant", a)
           /\ memLog' = memLog \o <<[role |-> "user", content |-> q],
                                     [role |-> "assistant", content |-> a]>>
           /\ memTurns' = a
    /\ UNCHANGED <<pipeVars, cacheVars, alignVars, simVars, svcVars, extraVars>>

\* get_response of a turn that raises after line 24: the error string is
\* returned at line 141 and no assistant message is added
TurnErrored ==
    /\ sessionHistory = NoResult
    /\ TurnsSoFar < MaxHistoryTurns
    /\ LET q == memTurns + 1
       IN  /\ memory' = add_message(memory, "user", q)
           /\ memLog' = Append(memLog, [role |-> "user", content |-> q])
           /\ memTurns' = q
    /\ UNCHANGED <<pipeVars, cacheVars, alignVars, simVars, svcVars, extraVars>>

\* lines 198-212: the messages at positions 0-1, 2-3, ... are taken as pairs
\* and a pair is kept when its roles are user and assistant
HistoryPairs(msgs) ==
    LET starts == SelectSeq([j \in 1..(Len(msgs) \div 2) |-> 2 * j - 1],
                            LAMBDA i : /\ msgs[i].role = "user"
                                       /\ msgs[i + 1].role = "assistant")
    IN  [j \in 1..Len(starts) |->
            [question |-> msgs[starts[j]].content,
             answer |-> msgs[starts[j] + 1].content,
             sql_used |-> <<>>]]

\* get_session_history(session_id); known: the session manager has the session
GetSessionHistory(known) ==
    /\ sessionHistory = NoResult
    /\ sessionHistory' =
          IF ~known THEN [success |-> FALSE, error |-> "Invalid session ID"]
          ELSE [success |-> TRUE, history |-> HistoryPairs(memory.messages)]
    /\ UNCHANGED <<pipeVars, cacheVars, alignVars, simVars, memVars, svcVars,
                   historyOthers>>

\* the route returns the result: the request is over
SessionHistoryReply ==
    /\ sessionHistory # NoResult
    /\ sessionHistory' = NoResult
    /\ UNCHANGED <<pipeVars, cacheVars, alignVars, simVars, memVars, svcVars,
                   historyOthers>>

\* --------------------------------------------------------------------------
\* The shared QueryCache called from concurrent request threads
\* --------------------------------------------------------------------------
\* The methods take no lock.  A thread can be preempted between two of its
\* bytecodes; one dict operation (lookup, store, delete, clear, one step of
\* an iterator) is atomic.
CacheThreads == {1, 2}

NoItem == [kind |-> "none"]

\* a thread outside the cache
IdleThread ==
    [pc |-> "idle", op |-> "none", key |-> <<>>, item |-> NoItem, at |-> 0,
     seen |-> 0, pending |-> {}, out |-> NoResult]

Returned(value) == [kind |-> "returned", value |-> value]
RaisedError(name) == [kind |-> "raised", error |-> name]

\* queries and set arguments of the racing threads: complete results only
RaceQueries == {<<"q1">>, <<"q2">>}
RaceSetInputs ==
    { <<<<"q1">>, ResultOneRow, 1>>,
      <<<<"q2">>, ResultNoRows, 1>> }

ThreadFrame == <<now, tickCount, pipeVars, alignVars, simVars, memVars, svcVars,
                 threadOthers>>

\* get, lines 28-31: the counter, the key and the test "cache_key in self.cache"
ThreadGetBegin(t, q) ==
    /\ cacheThreads[t].pc = "idle"
    /\ total_queries < MaxGets
    /\ total_queries' = total_queries + 1
    /\ IF CacheKey(q) \in DOMAIN cache
       THEN /\ cacheThreads' = [cacheThreads EXCEPT ![t] =
                   [IdleThread EXCEPT !.pc = "get_read", !.op = "get",
                                      !.key = CacheKey(q)]]
            /\ UNCHANGED <<cache_misses, lastGet>>
       ELSE /\ cacheThreads' = [cacheThreads EXCEPT ![t] =
                   [IdleThread EXCEPT !.pc = "done", !.op = "get",
                                      !.key = CacheKey(q), !.out = Miss]]
            /\ cache_misses' = cache_misses + 1
            /\ lastGet' = [query |-> q, out |-> Miss]
    /\ UNCHANGED <<cache, cache_hits, written, setCount, ThreadFrame>>

\* get, line 32: cached_item = self.cache[cache_key]
ThreadGetRead(t) ==
    LET th == cacheThreads[t]
    IN  /\ th.pc = "get_read"
        /\ cacheThreads' = [cacheThreads EXCEPT ![t] =
               IF th.key \in DOMAIN cache
               THEN [th EXCEPT !.pc = "get_expiry", !.item = cache[th.key]]
               ELSE [th EXCEPT !.pc = "done", !.out = RaisedError("KeyError")]]
        /\ UNCHANGED <<cache, total_queries, cache_hits, cache_misses, lastGet,
                       written, setCount, ThreadFrame>>

\* get, lines 35-47: the expiry test on the item read, then the deletion of
\* the key or the payload built from the item
ThreadGetFinish(t) ==
    LET th == cacheThreads[t]
    IN  /\ th.pc = "get_expiry"
        /\ IF IsExpired(now, th.item)
           THEN IF th.key \in DOMAIN cache
                THEN /\ cache' = CacheWithout(cache, th.key)
                     /\ cache_misses' = cache_misses + 1
                     /\ cacheThreads' = [cacheThreads EXCEPT ![t] =
                            [th EXCEPT !.pc = "done", !.out = Miss]]
                     /\ UNCHANGED cache_hits
                ELSE /\ cacheThreads' = [cacheThreads EXCEPT ![t] =
                            [th EXCEPT !.pc = "done", !.out = RaisedError("KeyError")]]
                     /\ UNCHANGED <<cache, cache_hits, cache_misses>>
           ELSE /\ cache_hits' = cache_hits + 1
                /\ cacheThreads' = [cacheThreads EXCEPT ![t] =
                       [th EXCEPT !.pc = "done", !.out = HitPayload(th.item)]]
                /\ UNCHANGED <<cache, cache_misses>>
        /\ UNCHANGED <<total_queries, lastGet, written, setCount, ThreadFrame>>

\* set, lines 55-63: one store into the dict
ThreadSet(t, q, result, ttl) ==
    /\ cacheThreads[t].pc = "idle"
    /\ setCount < MaxSets
    /\ setCount' = setCount + 1
    /\ cache' = CacheSet(cache, q, result, ttl, now)
    /\ written' = [x \in DOMAIN written \cup {CacheKey(q)} |->
                     IF x = CacheKey(q)
                     THEN [result |-> result, expires_at |-> now + EffectiveTtl(ttl)]
                     ELSE written[x]]
    /\ cacheThreads' = [cacheThreads EXCEPT ![t] =
           [IdleThread EXCEPT !.pc = "done", !.op = "set", !.key = CacheKey(q),
                              !.out = Returned(0)]]
    /\ UNCHANGED <<total_queries, cache_hits, cache_misses, lastGet, ThreadFrame>>

\* clear, line 67: self.cache.clear()
ThreadClear(t) ==
    /\ cacheThreads[t].pc = "idle"
    /\ cache' = EmptyCache
    /\ written' = EmptyCache
    /\ cacheThreads' = [cacheThreads EXCEPT ![t] =
           [IdleThread EXCEPT !.pc = "done", !.op = "clear", !.out = Returned(0)]]
    /\ UNCHANGED <<total_queries, cache_hits, cache_misses, lastGet, setCount,
                   ThreadFrame>>

\* cleanup_expired, lines 83-84: now is read and the iteration over
\* self.cache.items() starts; an empty dict ends it at once
ThreadCleanupBegin(t) ==
    /\ cacheThreads[t].pc = "idle"
    /\ cacheThreads' = [cacheThreads EXCEPT ![t] =
           IF cache = EmptyCache
           THEN [IdleThread EXCEPT !.pc = "done", !.op = "cleanup", !.out = Returned(0)]
           ELSE [IdleThread EXCEPT !.pc = "cleanup_iter", !.op = "cleanup", !.at = now,
                                   !.seen = Cardinality(DOMAIN cache)]]
    /\ UNCHANGED <<cache, total_queries, cache_hits, cache_misses, lastGet, written,
                   setCount, ThreadFrame>>

\* cleanup_expired, lines 84-87: the iteration goes on; the iterator raises
\* RuntimeError when the dict has changed its size since the iteration began
ThreadCleanupIterate(t) ==
    LET th == cacheThreads[t]
        expired_keys == ExpiredKeys(cache, th.at)
    IN  /\ th.pc = "cleanup_iter"
        /\ cacheThreads' = [cacheThreads EXCEPT ![t] =
               IF Cardinality(DOMAIN cache) # th.seen
               THEN [th EXCEPT !.pc = "done", !.out = RaisedError("RuntimeError")]
               ELSE IF expired_keys = {}
               THEN [th EXCEPT !.pc = "done", !.out = Returned(0)]
               ELSE [th EXCEPT !.pc = "cleanup_del", !.pending = expired_keys]]
        /\ UNCHANGED <<cache, total_queries, cache_hits, cache_misses, lastGet,
                       written, setCount, ThreadFrame>>

\* cleanup_expired, lines 89-90: del self.cache[key] for one of the keys listed
ThreadCleanupDelete(t) ==
    LET th == cacheThreads[t]
    IN  /\ th.pc = "cleanup_del"
        /\ \E k \in th.pending :
              IF k \in DOMAIN cache
              THEN /\ cache' = CacheWithout(cache, k)
                   /\ cacheThreads' = [cacheThreads EXCEPT ![t] =
                          IF th.pending = {k}
                          THEN [th EXCEPT !.pc = "done", !.pending = {},
                                          !.out = Returned(Cardinality(ExpiredKeys(cache, th.at)))]
                          ELSE [th EXCEPT !.pending = th.pending \ {k}]]
              ELSE /\ cacheThreads' = [cacheThreads EXCEPT ![t] =
                          [th EXCEPT !.pc = "done", !.out = RaisedError("KeyError")]]
                   /\ UNCHANGED cache
        /\ UNCHANGED <<total_queries, cache_hits, cache_misses, lastGet, written,
                       setCount, ThreadFrame>>

\* the method has returned or raised: the thread is outside the cache again
ThreadReturn(t) ==
    /\ cacheThreads[t].pc = "done"
    /\ cacheThreads' = [cacheThreads EXCEPT ![t] = IdleThread]
    /\ UNCHANGED <<cache, total_queries, cache_hits, cache_misses, lastGet, written,
                   setCount, ThreadFrame>>

\* --------------------------------------------------------------------------
\* Initial states and specifications
\* --------------------------------------------------------------------------
PipeInit ==
    /\ messages = <<>>
    /\ pc = "idle"
    /\ user_message = <<>>
    /\ assistant_message = <<>>
    /\ sql_query = <<>>
    /\ data = <<>>
    /\ attempts = [s \in Sites |-> 0]
    /\ ret = [kind |-> "none"]
    /\ parsed = [sql_used |-> <<>>, sql_executed |-> FALSE, cached |-> FALSE]
    /\ turn = 0
    /\ calls = <<>>
    /\ succeeded = [s \in Sites |-> FALSE]
    /\ reported = [s \in Sites |-> FALSE]
    /\ usedText = [s \in Sites |-> <<>>]
    /\ execCalls = <<>>
    /\ execOutcome = NoOutcome
    /\ execLog = <<>>

CacheInit ==
    /\ cache = EmptyCache
    /\ now = 0
    /\ total_queries = 0
    /\ cache_hits = 0
    /\ cache_misses = 0
    /\ lastGet = [query |-> <<>>, out |-> Miss]
    /\ written = EmptyCache
    /\ setCount = 0
    /\ tickCount = 0

\* no request in flight
AlignIdle ==
    /\ alignArgs = NoArgs
    /\ alignResult = NoResult
    /\ dbQueries = 0
    /\ controlUsed = {}

\* the store tables the dashboard is started on
StoreInit ==
    \E t \in {Droguerias, Tiendas}, P \in PeriodTables,
       ls \in LeverSeries, cs \in ControlSeries :
    \E L \in LeverFamilies(t), C \in ControlFamilies(t) :
        /\ stores = L \cup C
        /\ periods = P
        /\ meas = Measurements(L \cup C, ls, cs)

EmptyStore ==
    /\ stores = {}
    /\ periods = {}
    /\ meas = {}

\* no simulation request in flight
SimIdle ==
    /\ simArgs = NoArgs
    /\ simResult = NoResult

\* the coefficient and cost tables the calculator is started on
SimTablesInit ==
    \E params \in OlsParamSets, costs \in CostTables :
        /\ olsTables = [t \in DOMAIN table_mapping |-> params]
        /\ capexFee = costs

EmptySimTables ==
    /\ olsTables = <<>>
    /\ capexFee = {}

\* the subsystems a specification does not exercise
\* the subsystems added later, idle
ExtraIdle ==
    /\ QIdle
    /\ noDataPrompt = NoResult
    /\ sessionHistory = NoResult
    /\ cacheThreads = [t \in CacheThreads |-> IdleThread]

RestIdle == SimIdle /\ EmptySimTables /\ MemIdle /\ SvcIdle /\ ExtraIdle

Init == PipeInit /\ CacheInit /\ AlignIdle /\ EmptyStore /\ RestIdle

Next ==
    \/ \E u \in Utterances : AskStart(u)
    \/ InitialAttemptFails
    \/ \E text \in Drafts : InitialAttemptSucceeds(text)
    \/ \E result \in ExecOutcomes : ExecuteQuery(result)
    \/ \E text \in ReformTexts : ReformAttemptSucceeds(text)
    \/ ReformAttemptFails
    \/ \E text \in NoDataTexts : NoDataAttemptSucceeds(text)
    \/ NoDataAttemptFails
    \/ ParseResponse

Spec == Init /\ [][Next]_vars

NextCache ==
    \/ \E q \in CacheQueries : Get(q)
    \/ \E in \in SetInputs : Set(in[1], in[2], in[3])
    \/ Clear
    \/ CleanupExpired
    \/ \E d \in TickSteps : Tick(d)

SpecCache == Init /\ [][NextCache]_vars

InitAlign == PipeInit /\ CacheInit /\ AlignIdle /\ StoreInit /\ RestIdle

NextAlign ==
    \/ \E tipologia \in TipologiaArgs, fuente \in FuenteArgs, unidad \in UnidadArgs,
          categoria \in CategoriaArgs, palanca \in PalancaArgs, dbUp \in BOOLEAN :
          GetEvolutionTimelineData(tipologia, fuente, unidad, categoria, palanca, dbUp)
    \/ EvolutionDataReply

SpecAlign == InitAlign /\ [][NextAlign]_vars

InitSim ==
    PipeInit /\ CacheInit /\ AlignIdle /\ EmptyStore /\ SimIdle /\ SimTablesInit /\ MemIdle
        /\ SvcIdle /\ ExtraIdle

NextSim ==
    \/ \E missing_fields \in {<<>>, <<"maco">>}, a \in SimulationArgs, dbUp \in BOOLEAN :
          CalculateRoute(missing_fields, a, dbUp)
    \/ \E a \in SimulationArgs, dbUp \in BOOLEAN : CalculateDirect(a, dbUp)
    \/ SimulationReply

SpecSim == InitSim /\ [][NextSim]_vars

InitMemory ==
    /\ PipeInit /\ CacheInit /\ AlignIdle /\ EmptyStore /\ SimIdle /\ EmptySimTables
    /\ \E n \in MemoryBounds : memory = NewMemory(n)
    /\ memLog = <<>>
    /\ memTurns = 0
    /\ SvcIdle /\ ExtraIdle

NextMemory == MemoryAddMessage \/ MemoryClear

SpecMemory == InitMemory /\ [][NextMemory]_vars

\* two or three requests of one session arrive together, on a session that has
\* no chatbot yet or on one that already had a turn
InitService ==
    /\ PipeInit /\ CacheInit /\ AlignIdle /\ EmptyStore /\ SimIdle /\ EmptySimTables
    /\ MemIdle /\ ExtraIdle
    /\ \/ chatbots = <<>> /\ botMessages = <<>>
       \/ chatbots = (Session :> 1) /\ botMessages = (1 :> EarlierTurn)
    /\ \E active \in {S \in SUBSET Threads : Cardinality(S) >= 2} :
          svcPc = [t \in Threads |-> IF t \in active THEN "start" ELSE "idle"]
    /\ svcBot = [t \in Threads |-> 0]

NextService ==
    \E t \in Threads :
        \/ GetChatbotCheck(t)
        \/ GetChatbotCreate(t)
        \/ GetChatbotReturn(t)
        \/ AddUserMessage(t)
        \/ AddAssistantMessage(t)

SpecService == InitService /\ [][NextService]_vars

NextQuestions ==
    \/ \E session_id \in {"s1", "s2"}, last_question \in {<<"q1">>, <<"pdv">>},
          llm \in LlmQuestionLists :
          GenerateFollowUpQuestions(session_id, last_question, <<"answer">>, llm)
    \/ \E d \in {default_ttl, cache_ttl} : QuestionTick(d)

SpecQuestions == Init /\ [][NextQuestions]_vars

\* --------------------------------------------------------------------------
\* Properties of the conversational pipeline (specification Spec)
\* --------------------------------------------------------------------------
RECURSIVE TurnsOf(_)
TurnsOf(cs) ==
    IF cs = <<>> THEN <<>>
    ELSE <<[role |-> "user", content |-> Head(cs).utterance],
           [role |-> "assistant", content |-> Head(cs).answer]>> \o TurnsOf(Tail(cs))

Tokens(text) == {text[i] : i \in 1..Len(text)}

\* C1: every call of get_response leaves its utterance as a user turn followed
\* by the answer it returned as an assistant turn, whatever path produced the
\* answer: between calls the history is exactly the pairs of the calls so far,
\* in call order (the window of 20 messages is not reached here).
C1_HistoryHoldsEveryCall ==
    (pc \in {"idle", "returned"} /\ 2 * Len(calls) <= max_messages)
        => messages = TurnsOf(calls)

\* C2: in one turn execute_query is invoked exactly once, with the first query
\* block of the first LLM response, when that response contains a query block,
\* and not at all when it contains none.
C2_ExecutedExactlyOncePerBlock ==
    pc = "returned" =>
        IF succeeded["initial"] /\ FindAll(usedText["initial"]) # <<>>
        THEN execCalls = <<Strip(FindAll(usedText["initial"])[1])>>
        ELSE execCalls = <<>>

\* C3: when the query returned rows and the reformulation call failed on both
\* attempts, the returned answer carries no figure and no placeholder of the
\* first model's draft.
C3_FallbackCarriesNoDraftFigure ==
    (pc = "returned" /\ reported["reform"])
        => Tokens(ret.text) \cap {DraftFigure, Placeholder} = {}

\* C4: when the query returned no rows or failed, the returned answer is the
\* text of the no-data call or, if that call failed, the fixed apology; it is
\* never the first model's draft and never carries the executor's error message.
C4_NoDataAnswerIsNeverTheDraft ==
    (pc = "returned" /\ execCalls # <<>>
        /\ (~execOutcome.success \/ execOutcome.data = <<>>))
        => /\ ret.text # assistant_message
           /\ ret.text # CleanResponse(assistant_message)
           /\ DbError \notin Tokens(ret.text)
           /\ ret.text = (IF succeeded["nodata"] THEN usedText["nodata"] ELSE Apology)

\* C5: once a turn has executed a query successfully, no later turn hands the
\* same query text (equal after strip and lower-casing) to execute_query while
\* the result would still be cached (default_ttl seconds).
C5_RepeatedQueryServedFromCache ==
    \A i, j \in DOMAIN execLog :
        (i < j /\ execLog[i].ok
            /\ Lower(Strip(execLog[i].query)) = Lower(Strip(execLog[j].query))
            /\ execLog[j].at <= execLog[i].at + 300)
            => FALSE

\* C7: each LLM call site makes at most 2 attempts in a turn, stops at its first
\* successful attempt and uses the text of that attempt, and reports failure only
\* after two failed attempts; a turn makes at most 4 attempts in all.
C7_AtMostTwoAttemptsPerCallSite ==
    /\ \A s \in Sites :
        /\ attempts[s] <= 2
        /\ reported[s] => (attempts[s] = 2 /\ ~succeeded[s])
        /\ succeeded[s] => attempts[s] \in {1, 2}
    /\ succeeded["initial"] => (pc # "llm_initial" /\ assistant_message = usedText["initial"])
    /\ succeeded["reform"] =>
          (pc = "returned" /\ (usedText["reform"] # <<>> => ret.text = usedText["reform"]))
    /\ succeeded["nodata"] =>
          (pc = "returned" /\ (usedText["nodata"] # <<>> => ret.text = usedText["nodata"]))
    /\ attempts["initial"] + attempts["reform"] + attempts["nodata"] <= 4

\* a turn whose initial call succeeded at its second attempt and whose
\* reformulation call failed twice
C7_Witness ==
    /\ pc = "returned"
    /\ attempts["initial"] = 2 /\ succeeded["initial"]
    /\ attempts["reform"] = 2 /\ reported["reform"]

\* C8: get_response never lets an exception escape: when the initial LLM call
\* failed on both attempts, or a later step raised, the call returns a string
\* that starts with the error prefix.
C8_NoExceptionEscapes ==
    /\ ret.kind # "raised"
    /\ pc = "returned" => ret.kind = "value"
    /\ (pc = "returned" /\ reported["initial"]) => ret.text = <<ErrorPrefix, LlmError>>

\* a turn that ended with the initial call failing twice
C8_Witness ==
    /\ pc = "returned"
    /\ reported["initial"]
    /\ ret.kind = "value"
    /\ ret.text[1] = ErrorPrefix

\* --------------------------------------------------------------------------
\* Properties of QueryCache (specification SpecCache)
\* --------------------------------------------------------------------------
\* C6: a get of any spelling of a query (equal after strip and lower-casing)
\* returns, at every time up to the expiry of the most recent set for that key
\* (set time + ttl, 300 s when no ttl is given), a payload marked cached whose
\* data, columns and row_count are those of that set; after the expiry, or
\* when no set since the last clear wrote the key, it returns a miss. This holds
\* after any sequence of set, get, clear and cleanup_expired.
C6_GetReturnsLastSetUntilExpiry ==
    [][ total_queries' = total_queries + 1 =>
          LET k == Lower(Strip(lastGet'.query))
              out == lastGet'.out
          IN IF k \in DOMAIN written /\ now <= written[k].expires_at
             THEN "data" \in DOMAIN written[k].result =>
                    /\ out.kind = "hit"
                    /\ out.cached = TRUE
                    /\ out.data = written[k].result.data
                    /\ out.columns = written[k].result.columns
                    /\ out.row_count = written[k].result.row_count
             ELSE out = Miss ]_vars

\* a hit through another spelling of the query, at the very instant of expiry,
\* after the key was written twice
C6_Witness ==
    LET k == Lower(Strip(lastGet.query))
    IN /\ lastGet.out.kind = "hit"
       /\ setCount = 2
       /\ DOMAIN written = {k}
       /\ k \in DOMAIN cache
       /\ cache[k].query # lastGet.query
       /\ now = cache[k].expires_at
       /\ total_queries > 0

\* --------------------------------------------------------------------------
\* Properties of the timeline aligner (specification SpecAlign)
\* --------------------------------------------------------------------------
AlignReturned == alignResult # NoResult

FilterNames == <<"tipologia", "fuente", "unidad", "categoria", "palanca">>

\* the filters of the running call that were not supplied
AbsentFilters == {i \in 1..Len(FilterNames) : alignArgs[FilterNames[i]] \in {NULL, ""}}

\* C9: a call of get_evolution_timeline_data with any of its five filters
\* missing returns a failure whose missing_filters names exactly the missing
\* filters (in the order typology, source, unit, category, lever), whose data
\* is empty, and it has issued no statement to the store.
C9_MissingFiltersRejectedBeforeAnyQuery ==
    (AlignReturned /\ AbsentFilters # {}) =>
        /\ alignResult.success = FALSE
        /\ "missing_filters" \in DOMAIN alignResult
        /\ alignResult.missing_filters =
               SelectSeq([i \in 1..Len(FilterNames) |-> filter_labels[FilterNames[i]]],
                         LAMBDA label : \E i \in AbsentFilters :
                                            filter_labels[FilterNames[i]] = label)
        /\ alignResult.data = <<>>
        /\ dbQueries = 0

\* a call on a store that holds lever and control stores, with some filters
\* supplied and at least two missing, the lever among them
C9_Witness ==
    /\ AlignReturned
    /\ Cardinality(AbsentFilters) \in 2..4
    /\ 5 \in AbsentFilters
    /\ \E s \in stores : s.lever_name = Lever1
    /\ \E s \in stores : s.lever_name = ControlLever
    /\ alignResult.success = FALSE
    /\ Len(alignResult.missing_filters) = Cardinality(AbsentFilters)

\* measurements of the active stores of the call's typology that carry the
\* given lever, under the call's source, unit and category, in period p
GroupMeasurements(lever, p) ==
    {r \in meas :
        /\ r.period_id = p.period_id
        /\ r.source_name = alignArgs.fuente
        /\ r.unit_name = alignArgs.unidad
        /\ r.category_name = alignArgs.categoria
        /\ \E s \in stores : /\ s.id = r.store_id
                             /\ s.is_active
                             /\ s.lever_name = lever
                             /\ s.typology_name = alignArgs.tipologia}

RECURSIVE Total(_)
Total(R) == IF R = {} THEN 0
            ELSE LET r == CHOOSE x \in R : TRUE IN r.value + Total(R \ {r})

\* start dates of the periods whose lever mean is strictly positive
PositiveLeverStarts ==
    {p.start_date : p \in {q \in periods :
        /\ GroupMeasurements(alignArgs.palanca, q) # {}
        /\ Total(GroupMeasurements(alignArgs.palanca, q)) > 0}}

\* end dates (in the column of the call's source) of the active stores
\* carrying the lever
LeverEndDates ==
    {IF alignArgs.fuente = SellIn THEN s.end_date_sellin ELSE s.end_date_sellout :
        s \in {x \in stores : /\ x.is_active
                              /\ x.lever_name = alignArgs.palanca
                              /\ x.typology_name = alignArgs.tipologia}} \ {NoDate}

\* C10: in a successful result every emitted period, whichever series it
\* carries, starts no earlier than the first period (by start date) with a
\* strictly positive lever mean, and no later than the lever's effective end
\* date, the largest end date of the active stores carrying the lever.
C10_EmittedPeriodsInsideLeverWindow ==
    (AlignReturned /\ alignResult.success) =>
        \A i \in 1..Len(alignResult.data) :
            /\ PositiveLeverStarts # {}
            /\ \A d \in PositiveLeverStarts :
                   (\A e \in PositiveLeverStarts : d <= e)
                       => alignResult.data[i].start_date >= d
            /\ \A d \in LeverEndDates :
                   (\A e \in LeverEndDates : e <= d)
                       => alignResult.data[i].start_date <= d

\* a successful, non-empty timeline for which the store holds a lever period
\* before the first positive one and a control period after the end date
C10_Witness ==
    /\ AlignReturned
    /\ alignResult.success
    /\ alignResult.data # <<>>
    /\ \E p \in periods :
           /\ GroupMeasurements(alignArgs.palanca, p) # {}
           /\ \A d \in PositiveLeverStarts : p.start_date < d
    /\ \E p \in periods :
           /\ GroupMeasurements(ControlLever, p) # {}
           /\ \E d \in LeverEndDates : \A e \in LeverEndDates : e <= d /\ p.start_date > d
    /\ \E i \in 1..Len(alignResult.data) :
           alignResult.data[i].palanca_value = NoValue

\* C11: in a successful result the display date of every emitted period is
\* greater than or equal to the display date of the period before it, for
\* Sell In (display date = start date) and for sell-out sources (display
\* date = end date) alike.
C11_DisplayDatesNonDecreasing ==
    (AlignReturned /\ alignResult.success) =>
        \A i \in 1..(Len(alignResult.data) - 1) :
            alignResult.data[i].display_date <= alignResult.data[i + 1].display_date

\* the control stores of the call's typology with a measurement, under the
\* call's filters, in a period emitted with a control value
ContributingControlStores ==
    {s \in {x \in stores : x.id \in controlUsed} :
        \E p \in periods, i \in 1..Len(alignResult.data) :
            /\ alignResult.data[i].period_label = p.period_label
            /\ alignResult.data[i].control_value # NoValue
            /\ \E r \in GroupMeasurements(ControlLever, p) : r.store_id = s.id}

\* C12: for Droguerias every control store that contributes to the control
\* series of a successful result lies in a city that holds an active store
\* carrying the lever in that typology, also when no lever store has a city.
C12_ControlStoresShareALeverCity ==
    (AlignReturned /\ alignResult.success /\ alignArgs.tipologia = Droguerias) =>
        \A c \in ContributingControlStores :
            \E s \in stores : /\ s.is_active
                              /\ s.lever_name = alignArgs.palanca
                              /\ s.typology_name = Droguerias
                              /\ s.city_id # NULL
                              /\ s.city_id = c.city_id

\* the call's filters select a measurement of an active store of the group
SeriesIsEmpty(lever) == \A p \in periods : GroupMeasurements(lever, p) = {}

\* C13: when the lever series or the control series is empty after filtering,
\* the result is a success with no period at all: not an error, and not a
\* series with one side only.
C13_EmptySeriesGivesEmptyTimeline ==
    (AlignReturned /\ dbQueries > 1
        /\ (SeriesIsEmpty(alignArgs.palanca) \/ SeriesIsEmpty(ControlLever))) =>
        /\ alignResult.success
        /\ alignResult.data = <<>>

\* --------------------------------------------------------------------------
\* Claims about the simulation calculator
\* --------------------------------------------------------------------------
SimReturned == simResult # NoResult

\* C14: a simulation requested with an empty lever list never yields a success
\* result, neither through the /calculate route (which answers 400) nor when
\* calculate_simulation is called directly.
C14_EmptyLeverListRejected ==
    (SimReturned /\ simArgs.palancas = <<>>) =>
        /\ ~simResult.body.success
        /\ "uplift" \notin DOMAIN simResult.body
        /\ simResult.via = "route" => simResult.status = 400

\* a direct call with no lever reached the lever lookup and was refused there
C14_Witness ==
    /\ SimReturned
    /\ simResult.via = "direct"
    /\ simArgs.palancas = <<>>
    /\ simArgs.tipologia \in DOMAIN table_mapping
    /\ simResult.body = [success |-> FALSE,
                         error |-> <<"No se encontraron palancas validas">>]

\* the levers of the request in flight
RequestedLevers == {simArgs.palancas[i] : i \in 1..Len(simArgs.palancas)}

\* the cost rows of the requested typology for the requested levers
RequestedCostRows ==
    {c \in capexFee : /\ c.typology_name = simArgs.tipologia
                      /\ c.lever_name \in RequestedLevers}

\* C15: a simulation succeeds only if every requested lever has a cost row for
\* the requested typology, and then its cost breakdown names every requested
\* lever, so the totals are never sums over a strict subset of the levers.
C15_SuccessHasACostRowForEveryLever ==
    (SimReturned /\ simResult.body.success) =>
        /\ \A l \in RequestedLevers : \E c \in RequestedCostRows : c.lever_name = l
        /\ {b.palanca : b \in simResult.body.capex_breakdown} = RequestedLevers

\* C16: a simulation whose lever list holds a name outside the lever vocabulary,
\* or whose typology name is unknown, is rejected with an error that carries no
\* projection field, whatever else the lever list holds.
C16_UnknownNamesRejected ==
    (/\ SimReturned
     /\ \/ simArgs.tipologia \notin TypologyMaster
        \/ \E l \in RequestedLevers : l \notin LeverMaster) =>
        /\ ~simResult.body.success
        /\ DOMAIN simResult.body
               \cap {"uplift", "roi", "payback", "total_capex_usd", "total_fee_usd",
                     "total_capex_cop", "total_fee_cop"} = {}

SimSucceeded == SimReturned /\ simResult.body.success

\* C17 as stated: the reported uplift is 0 when the without-treatment
\* prediction is <= 0 and otherwise is exactly (with - without) / without * 100.
C17_UpliftIsExactQuotient ==
    SimSucceeded =>
        LET with == simResult.body.prediction_with_palanca
            control == simResult.body.prediction_control
        IN  IF control <= 0 THEN simResult.body.uplift = 0
            ELSE simResult.body.uplift * control = 10000 * (with - control)

\* C17 amended: the reported uplift is 0 when the without-treatment prediction
\* is <= 0 and otherwise is (with - without) / without * 100 rounded to two
\* decimals, that is within half a hundredth of the quotient.
C17_UpliftIsRoundedQuotient ==
    SimSucceeded =>
        LET with == simResult.body.prediction_with_palanca
            control == simResult.body.prediction_control
            error == simResult.body.uplift * control - 10000 * (with - control)
        IN  IF control <= 0 THEN simResult.body.uplift = 0
            ELSE 2 * error <= control /\ -2 * error <= control

\* a success whose without-treatment prediction is not positive although the
\* levers change the prediction
C17_Witness ==
    /\ SimSucceeded
    /\ simResult.body.prediction_control <= 0
    /\ simResult.body.prediction_with_palanca > simResult.body.prediction_control
    /\ simResult.body.uplift = 0

\* incremental monthly profit minus the recurring fee, in hundredths
MonthlyProfit100 ==
    (simResult.body.prediction_with_palanca - simResult.body.prediction_control)
        * simArgs.maco
      - 100 * simResult.body.total_fee_cop

C19_HistoryIsTheLastNAdded ==
    LET N == memory.max_messages
        n == Len(memLog)
        k == IF n < N THEN n ELSE N
    IN  /\ Len(memory.messages) <= N
        /\ memory.messages = SubSeq(memLog, n - k + 1, n)
        /\ Tail(get_messages_for_api(memory)) = SubSeq(memLog, n - k + 1, n)

\* twenty-five messages added to a memory of bound 20: messages 6..25 remain
C19_Witness ==
    /\ memory.max_messages = 20
    /\ Len(memLog) = 25
    /\ [i \in 1..Len(memory.messages) |-> memory.messages[i].content]
           = [i \in 1..20 |-> i + 5]

\* --------------------------------------------------------------------------
\* Claims about concurrent turns of one session
\* --------------------------------------------------------------------------
\* the threads that served a request
Served == {t \in Threads : svcPc[t] # "idle"}

\* the histories that running the turns of the threads in S one after the
\* other, in some order, appends to history h
RECURSIVE SerialHistories(_, _)
SerialHistories(h, S) ==
    IF S = {} THEN {h}
    ELSE UNION { SerialHistories(
                     AddMessage(AddMessage(h, "user", Question(t)),
                                "assistant", Answer(t)),
                     S \ {t}) : t \in S }

\* C20: when the turns submitted together for one session are all served, they
\* all acted on the one chatbot of the session, only one chatbot was ever made
\* for it, and its history is the one of the turns run in some serial order,
\* each user message immediately followed by its own answer.
C20_ConcurrentTurnsAreSerial ==
    (\A t \in Served : svcPc[t] = "done") =>
        /\ \A t \in Served : svcBot[t] = chatbots[Session]
        /\ Cardinality(DOMAIN botMessages) = 1
        /\ botMessages[chatbots[Session]]
               \in SerialHistories(<<>>, Served) \cup SerialHistories(EarlierTurn, Served)

\* --------------------------------------------------------------------------
\* Counters of QueryCache (specification SpecCache)
\* --------------------------------------------------------------------------
NextHistory ==
    \/ TurnAnswered
    \/ TurnErrored
    \/ \E known \in BOOLEAN : GetSessionHistory(known)
    \/ SessionHistoryReply

SpecHistory == Init /\ [][NextHistory]_vars

NextRace ==
    \/ \E t \in CacheThreads, q \in RaceQueries : ThreadGetBegin(t, q)
    \/ \E t \in CacheThreads : ThreadGetRead(t)
    \/ \E t \in CacheThreads : ThreadGetFinish(t)
    \/ \E t \in CacheThreads, in \in RaceSetInputs : ThreadSet(t, in[1], in[2], in[3])
    \/ \E t \in CacheThreads : ThreadClear(t)
    \/ \E t \in CacheThreads : ThreadCleanupBegin(t)
    \/ \E t \in CacheThreads : ThreadCleanupIterate(t)
    \/ \E t \in CacheThreads : ThreadCleanupDelete(t)
    \/ \E t \in CacheThreads : ThreadReturn(t)
    \/ Tick(default_ttl)

SpecRace == Init /\ [][NextRace]_vars

\* --------------------------------------------------------------------------
\* The three kinds of request served one after another on a populated store
\* --------------------------------------------------------------------------
\* store tables holding two stores in two cities, four periods and their
\* measurements, or nothing at all
SampleStore ==
    \/ EmptyStore
    \/ LET S == {Store(1, Tiendas, Lever1, TRUE, "c1", 3, 6, 3, 6),
                 Store(5, Tiendas, ControlLever, TRUE, "c2", 1, 8, 1, 8)}
       IN  /\ stores = S
           /\ periods = {Period(1, "W1", 1, 2), Period(2, "W2", 3, 4),
                         Period(3, "W3", 5, 6), Period(4, "W4", 7, 8)}
           /\ meas = Measurements(S, (1 :> 0) @@ (2 :> 5) @@ (3 :> 7) @@ (4 :> 3),
                                  (1 :> 4) @@ (2 :> 4) @@ (3 :> 4) @@ (4 :> 4))

SampleSimTables ==
    /\ olsTables = [t \in DOMAIN table_mapping |->
                       ("Intercept" :> 10) @@ ("q_frentes" :> 1)
                           @@ ("punta_de_gondola" :> 5) @@ ("metro_cuadrado" :> 3)]
    /\ capexFee = {CostRow(t, PuntaDeGondola, 50, 1) : t \in {SuperHiper, Conveniencia}}

\* texts of the first LLM call: no block, a block with a read, a block with
\* a statement that writes
StoreDrafts ==
    { <<"txt">>,
      <<FenceLower, "q1", FenceClose, "txt">>,
      <<FenceLower, WriteStatement, FenceClose, "txt">> }

StoreSimulationArgs ==
    {a \in SimulationArgs : /\ a.tipologia = SuperHiper
                            /\ a.palancas \in {<<>>, <<PuntaDeGondola>>}
                            /\ a.tamano_tienda = "Mediano"
                            /\ a.features = <<>>
                            /\ a.maco = 35
                            /\ a.exchange_rate = 1}

InitStore ==
    /\ PipeInit /\ CacheInit /\ AlignIdle /\ SampleStore
    /\ SimIdle /\ SampleSimTables /\ MemIdle /\ SvcIdle /\ ExtraIdle

\* the server is between two requests
NoRequest == pc = "idle" /\ alignResult = NoResult /\ simResult = NoResult

NextStore ==
    \/ \E u \in {<<"u1">>} : NoRequest /\ AskStart(u)
    \/ InitialAttemptFails
    \/ \E text \in StoreDrafts : InitialAttemptSucceeds(text)
    \/ \E result \in ExecOutcomes : ExecuteQuery(result)
    \/ \E text \in ReformTexts : ReformAttemptSucceeds(text)
    \/ ReformAttemptFails
    \/ \E text \in NoDataTexts : NoDataAttemptSucceeds(text)
    \/ NoDataAttemptFails
    \/ ParseResponse
    \/ \E tipologia \in {Tiendas}, fuente \in {SellOut}, unidad \in {Unit1},
          categoria \in {Category1}, palanca \in PalancaArgs, dbUp \in BOOLEAN :
          NoRequest /\ GetEvolutionTimelineData(tipologia, fuente, unidad, categoria,
                                                palanca, dbUp)
    \/ EvolutionDataReply
    \/ \E a \in StoreSimulationArgs, dbUp \in BOOLEAN :
          NoRequest /\ CalculateRoute(<<>>, a, dbUp)
    \/ SimulationReply

SpecStore == InitStore /\ [][NextStore]_vars

\* C30: total_queries = cache_hits + cache_misses always; every get raises
\* total_queries by 1 and exactly one of cache_hits / cache_misses by 1, a hit
\* when the key is stored and not expired, otherwise a miss, and a get of an
\* expired entry removes it; set, clear, cleanup_expired and the passing of
\* time leave the three counters unchanged.
C30_CountersAddUp ==
    /\ [](total_queries = cache_hits + cache_misses)
    /\ [][ /\ \A q \in CacheQueries :
                Get(q) =>
                    LET k == Lower(Strip(q))
                        live == k \in DOMAIN cache /\ now <= cache[k].expires_at
                    IN  /\ total_queries' = total_queries + 1
                        /\ live => /\ cache_hits' = cache_hits + 1
                                   /\ cache_misses' = cache_misses
                                   /\ cache' = cache
                        /\ ~live => /\ cache_hits' = cache_hits
                                    /\ cache_misses' = cache_misses + 1
                                    /\ k \notin DOMAIN cache'
           /\ (\/ \E in \in SetInputs : Set(in[1], in[2], in[3])
               \/ Clear
               \/ CleanupExpired
               \/ \E d \in TickSteps : Tick(d))
                  => UNCHANGED <<total_queries, cache_hits, cache_misses>> ]_vars

\* a get found its entry expired: counted as a miss after an earlier hit, and
\* the entry written since the last clear is gone
C30_Witness ==
    /\ cache_hits > 0
    /\ cache_misses > 0
    /\ lastGet.out = Miss
    /\ Lower(Strip(lastGet.query)) \in DOMAIN written
    /\ now > written[Lower(Strip(lastGet.query))].expires_at
    /\ Lower(Strip(lastGet.query)) \notin DOMAIN cache

\* --------------------------------------------------------------------------
\* Follow-up questions served from the cache (specification SpecQuestions)
\* --------------------------------------------------------------------------
\* C28: a call of generate_follow_up_questions with the session id, question
\* and response of an earlier call, made within cache_ttl of that call, returns
\* the question list of that call, makes no LLM call and does not raise.
C28_RepeatedCallServedFromCache ==
    [][ \A session_id \in {"s1", "s2"}, last_question \in {<<"q1">>, <<"pdv">>},
           llm \in LlmQuestionLists :
           LET k == Lower(Strip(QuestionCacheKey(session_id, last_question,
                                                 <<"answer">>)))
           IN  (/\ GenerateFollowUpQuestions(session_id, last_question, <<"answer">>, llm)
                /\ k \in DOMAIN written
                /\ now <= written[k].expires_at)
                   => /\ qOut'.kind = "value"
                      /\ qOut'.questions = written[k].result.questions
                      /\ qLlmCalls' = qLlmCalls ]_vars

\* --------------------------------------------------------------------------
\* Further properties of the conversational pipeline (specification Spec)
\* --------------------------------------------------------------------------
\* C23: when the reformulation call failed on both attempts, the answer is the
\* deterministic fallback: for a result of exactly one row with exactly one
\* column, the draft without its query block with the placeholder replaced by
\* that single value; otherwise that text followed by the number of rows.
C23_ReformulationFallback ==
    (pc = "returned" /\ reported["reform"]) =>
        LET clean == Strip(RemoveBlocks(assistant_message))
        IN  IF Len(data) = 1 /\ Cardinality(DOMAIN data[1]) = 1
            THEN /\ ret.kind = "value"
                 /\ ret.text = [i \in 1..Len(clean) |->
                                   IF clean[i] = Placeholder
                                   THEN data[1][CHOOSE c \in DOMAIN data[1] : TRUE]
                                   ELSE clean[i]]
            ELSE /\ ret.kind = "value"
                 /\ ret.text = clean \o <<"Encontre", ToString(Len(data)),
                                          "registro(s) en los datos.">>

\* C29: in the response of process_message, sql_executed is true exactly when
\* execute_query was invoked during the turn, and sql_used is then the query
\* that was executed; in particular a turn answered by the reformulation or
\* no-data call after a query was executed reports sql_executed = true.
C29_SqlExecutedReportsTheExecution ==
    [][ (pc = "returned" /\ pc' = "idle") =>
            /\ parsed'.sql_executed <=> execCalls # <<>>
            /\ parsed'.sql_executed => parsed'.sql_used = execCalls[1] ]_vars

\* C24: the prompt of the no-data call lists the data the store holds: its
\* periods, at most ten store names and its cities, each list non-empty
\* whenever the store has periods, stores or cities
C24_NoDataPromptListsTheStore ==
    (noDataPrompt # NoResult) =>
        /\ periods # {} => noDataPrompt.periods # <<>>
        /\ stores # {} => /\ noDataPrompt.stores # <<>>
                          /\ Len(noDataPrompt.stores) <= 10
        /\ {s.city_id : s \in stores} \ {NULL} # {} => noDataPrompt.cities # <<>>

\* C22: no ask, align or simulate request changes the tables of the store
C22_RequestsLeaveTheStoreUnchanged ==
    [][UNCHANGED <<stores, periods, meas, olsTables, capexFee>>]_vars

\* the parameter names of the requested levers that are in the vocabulary
SelectedLeverParams ==
    {palanca_mapping[l] : l \in RequestedLevers \cap DOMAIN palanca_mapping}

\* the sum of the coefficients a parameter table gives to a set of names
RECURSIVE CoefficientSum(_, _)
CoefficientSum(params, names) ==
    IF names = {} THEN 0
    ELSE LET n == CHOOSE x \in names : TRUE
         IN  (IF n \in DOMAIN params THEN params[n] ELSE 0)
                 + CoefficientSum(params, names \ {n})

\* C26: in a successful simulation the with-treatment prediction minus the
\* without-treatment prediction is the sum of the typology's coefficients of
\* the selected levers, whatever the numeric features, the size class and
\* the coefficients of the levers not selected
C26_PredictionGapIsSelectedLeverSum ==
    SimSucceeded =>
        simResult.body.prediction_with_palanca - simResult.body.prediction_control
            = CoefficientSum(olsTables[simArgs.tipologia], SelectedLeverParams)

\* a success with one of two priced levers selected, numeric features given
\* and a typology whose table weighs those features and the other lever
C26_Witness ==
    /\ SimSucceeded
    /\ simArgs.palancas = <<PuntaDeGondola>>
    /\ simArgs.features # <<>>
    /\ simArgs.tamano_tienda = "XL"
    /\ "q_frentes" \in DOMAIN olsTables[simArgs.tipologia]
    /\ "metro_cuadrado" \in DOMAIN olsTables[simArgs.tipologia]
    /\ olsTables[simArgs.tipologia]["metro_cuadrado"] # 0
    /\ simResult.body.prediction_with_palanca - simResult.body.prediction_control = 5

\* C25: for a sell-out source with a known anchor date and a non-empty
\* timeline, the reported anchor marker is the display date of an emitted
\* period whose start..display interval contains the anchor date
C25_AnchorMarkerIsAPlottedPoint ==
    (AlignReturned /\ alignResult.success /\ is_sell_out(alignArgs.fuente)
        /\ alignResult.project_start_date # NoDate /\ alignResult.data # <<>>) =>
        \E i \in 1..Len(alignResult.data) :
            /\ alignResult.project_start_display = alignResult.data[i].display_date
            /\ alignResult.data[i].start_date <= alignResult.project_start_date
            /\ alignResult.project_start_date <= alignResult.data[i].display_date

\* the turns of the retained window that were followed by their answer: a
\* user message directly followed by an assistant message, in order
AnsweredTurns(msgs) ==
    LET starts == SelectSeq([i \in 1..(Len(msgs) - 1) |-> i],
                            LAMBDA i : /\ msgs[i].role = "user"
                                       /\ msgs[i + 1].role = "assistant")
    IN  [j \in 1..Len(starts) |->
            [question |-> msgs[starts[j]].content,
             answer |-> msgs[starts[j] + 1].content,
             sql_used |-> <<>>]]

\* C27: get_session_history returns, in order, exactly one entry for each
\* user turn of the retained window that was followed by its assistant
\* answer, also after turns that ended in an error and after truncation
C27_HistoryListsEveryAnsweredTurn ==
    (sessionHistory # NoResult /\ sessionHistory.success) =>
        sessionHistory.history = AnsweredTurns(memory.messages)

\* an entry as one call of set stores it
CompleteEntry(item) ==
    /\ DOMAIN item = {"query", "result", "created_at", "expires_at"}
    /\ \E in \in RaceSetInputs :
          /\ item.query = in[1]
          /\ item.result = in[2]
          /\ item.expires_at = item.created_at + EffectiveTtl(in[3])

\* C21: with the four methods running concurrently no call ends in an error,
\* and a get returns a miss or the payload of a complete entry stored under
\* its key by one call of set
C21_ConcurrentCallsNeverFailNorTear ==
    \A t \in CacheThreads :
        LET th == cacheThreads[t]
        IN  th.pc = "done" =>
                /\ th.out.kind # "raised"
                /\ (th.op = "get" /\ th.out # Miss) =>
                       /\ CompleteEntry(th.item)
                       /\ CacheKey(th.item.query) = th.key
                       /\ th.out = HitPayload(th.item)

====
